---------------------------- MODULE Spec2Model ----------------------------
(***************************************************************************)
(* Model of naomiaro/recording-calibration.                                *)
(*                                                                         *)
(*   - the sample-accurate recording gate (RecorderProcessor) with the     *)
(*     chunk listener of the recorder utilities (SpecGate);                *)
(*   - the fixed-count capture worklet CaptureWriter (SpecCapture);        *)
(*   - the multi-trial aggregation calibrateLatencyRobust (SpecRobust);    *)
(*   - the lag estimator estimateLagNormalized (SpecEstimator);            *)
(*   - the probe generators makeLogChirp and makeMLSSequence (SpecProbe);  *)
(*   - the trials of one calibrateLatencyRobust call in time, with the     *)
(*     main thread, the audio thread and the playing probes (SpecTrials,   *)
(*     SpecTrialsLive);                                                    *)
(*   - the diagnostics calibrateLatency returns (SpecDiag);                *)
(*   - the order of the steps of calibrateLatency and                      *)
(*     calibrateLatencyRobust calls, alone (SpecCall) and started          *)
(*     together (SpecWorklet);                                             *)
(*   - calibrateLatency and scheduleTake of the recorder utilities over    *)
(*     one recorder node (SpecUtils).                                      *)
(*                                                                         *)
(* Times are integers counted in ticks; one sample lasts TicksPerSample    *)
(* ticks, so a time may fall strictly between two samples and              *)
(* floor((t - t0) * sampleRate) is (t - t0) \div TicksPerSample.           *)
(* Floating-point rounding is not modelled.                                *)
(***************************************************************************)
EXTENDS Integers, Sequences, FiniteSets, TLC

(***************************************************************************)
(* Bounds of the model.                                                    *)
(***************************************************************************)
TicksPerSample == 2     \* time resolution: ticks per sample period
MaxBlockSize   == 2     \* render quantum sizes 1..MaxBlockSize are explored
MaxTime        == 7     \* command times are drawn from 0..MaxTime (ticks)
MaxCmds        == 1     \* commands posted to the gate in one run
MaxSilent      == 1     \* blocks delivered without microphone channels

NULL == 0 - 1           \* JavaScript null (all modelled times are >= 0)

Max(a, b) == IF a >= b THEN a ELSE b
Min(a, b) == IF a <= b THEN a ELSE b

VARIABLES
    \* ---- RecorderProcessor (audio thread) ----
    blockSize,      \* frames per block (micIn[0].length), fixed per run
    currentTime,    \* AudioWorkletGlobalScope.currentTime, in ticks
    startAt,        \* this.startAt (NULL or ticks)
    endAt,          \* this.endAt   (NULL or ticks)
    recording,      \* this.recording
    refConnected,   \* whether input 1 (reference) carries channels
    port,           \* chunk messages posted by the processor, not yet received
    \* ---- listener of the recorder utilities (main thread) ----
    collectedMic,   \* collectedMic: the chunks pushed by the handler
    collectedRef,   \* collectedRef
    \* ---- history of the run (not program state) ----
    last,           \* the last gate operation, with the gate state before it
    cmds,           \* commands received so far
    silent,         \* blocks without microphone channels so far
    win,            \* bookkeeping of the latest command
    \* ---- CaptureWriter (audio thread) ----
    buf,            \* this.buf: the samples written so far, zero-filled
    writeIdx,       \* this.writeIdx
    target,         \* this.target
    cwRecording,    \* this.recording of CaptureWriter
    cwPort,         \* 'done' messages posted, not yet received
    \* ---- playAndRecordCalibration (main thread) ----
    micDone,        \* whether the promise awaiting 'done' is resolved
    micResult,      \* the samples it resolved with
    \* ---- history of the capture (not program state) ----
    nextSample,     \* index of the next input sample of the stream
    startSample,    \* index of the first input sample after the last 'start'
    cwStarts,       \* 'start' commands received so far
    cwSilent,       \* blocks without channel data so far
    cwLast,         \* the last CaptureWriter operation
    \* ---- calibrateLatencyRobust (main thread) ----
    opts,           \* the caller's options (NULL: not given)
    rpc,            \* position in calibrateLatencyRobust
    trial,          \* the loop counter i
    results,        \* results
    valid,          \* valid
    currentAmp,     \* currentAmp, in units of 1/AmpScale
    returned,       \* the value the call resolved with
    \* ---- history of the call (not program state) ----
    probeAmps,      \* the amplitude each trial's probe was generated with
    \* ---- estimateLagNormalized (one call) ----
    estIn,          \* the arguments: mic, ref, sampleRate, opts, and the file called
    x,              \* x: the copy of mic, DC removed
    y,              \* y: the copy of ref, DC removed
    maxLag,         \* maxLag
    lag,            \* the loop variable lag
    bestLag,        \* bestLag
    bestScore,      \* bestScore
    epc,            \* position in estimateLagNormalized
    estResult,      \* the value returned
    \* ---- history of the call (not program state) ----
    evaluated,      \* the lags evalLag has been called with
    \* ---- probe generation: makeMLSSequence / makeLogChirp (one call) ----
    probeIn,        \* the arguments
    ppc,            \* position in the generator
    reg,            \* reg: the shift register
    mlsIdx,         \* the loop index i of the LFSR loop
    oneFirst,       \* one[0]
    oneLast,        \* the sample of one written last
    chirpY,         \* the chirp buffer y, in units of 1 / (AmpScale * fadeN^2)
    yEdges,         \* first and last sample and length of the buffer returned
    \* ---- the trials of one calibrateLatencyRobust call, in time ----
    tIn,            \* attempts, preRollMs, postRollMs, ref.length, and whether
                    \* the microphone stream delivers channel data
    tpc,            \* position of the main thread in the loop / in the trial
    tBeat,          \* parity of the blocks the audio thread has processed
    tSleepLeft,     \* the time left until the timer of sleep(preRollMs) is due
    tNodes,         \* the capture-writer nodes created so far, one per trial
    tProbes,        \* the buffer sources playing: [trial, left], left being
                    \* the samples still to play
    \* ---- the diagnostics of calibrateLatency ----
    diagIn,         \* the captured buffer mic and the option filterHpHz
    dpc,            \* position in calibrateLatency after the capture
    micForCorr,     \* the buffer handed to the estimator
    micMin,         \* Math.min(...mic)
    micMax,         \* Math.max(...mic)
    diag,           \* the diagnostics of the returned result
    \* ---- the calls of calibrateLatency / calibrateLatencyRobust ----
    calls,                      \* per call: the caller's options, the position,
                                \* the options of the trial under way, and the
                                \* hardware interactions so far, in order
    captureWorkletRegistered,   \* the module-level flag of ensureCaptureWorklet
    addModuleCalls,             \* audioWorklet.addModule calls made so far
    \* ---- the recorder utilities over one recorder node ----
    uIn,            \* frames per block, the calibrateLatency version in use,
                    \* whether the reference input carries channels
    uNow,           \* ctx.currentTime in ticks: the start of the next block
    uGate,          \* the RecorderProcessor of recNode: startAt, endAt, recording
    uCmds,          \* commands posted to recNode.port, not yet received
    uChunks,        \* chunk messages posted by the processor, not yet received
    uCalls,         \* the calibrateLatency calls made so far
    uTakes          \* the scheduleTake calls made so far

gateVars == <<blockSize, currentTime, startAt, endAt, recording, refConnected,
              port, collectedMic, collectedRef, last, cmds, silent, win>>

capVars == <<buf, writeIdx, target, cwRecording, cwPort, micDone, micResult,
             nextSample, startSample, cwStarts, cwSilent, cwLast>>

robVars == <<opts, rpc, trial, results, valid, currentAmp, returned, probeAmps>>

estVars == <<estIn, x, y, maxLag, lag, bestLag, bestScore, epc, estResult, evaluated>>

probeVars == <<probeIn, ppc, reg, mlsIdx, oneFirst, oneLast, chirpY, yEdges>>

trialVars == <<tIn, tpc, tBeat, tSleepLeft, tNodes, tProbes>>

diagVars == <<diagIn, dpc, micForCorr, micMin, micMax, diag>>

callVars == <<calls, captureWorkletRegistered, addModuleCalls>>

utilVars == <<uIn, uNow, uGate, uCmds, uChunks, uCalls, uTakes>>

vars == <<gateVars, capVars, robVars, estVars, probeVars, trialVars, diagVars, callVars, utilVars>>

notGate      == <<capVars, robVars, estVars, probeVars, trialVars, diagVars, callVars, utilVars>>
notCapture   == <<gateVars, robVars, estVars, probeVars, trialVars, diagVars, callVars, utilVars>>
notRobust    == <<gateVars, capVars, estVars, probeVars, trialVars, diagVars, callVars, utilVars>>
notEstimator == <<gateVars, capVars, robVars, probeVars, trialVars, diagVars, callVars, utilVars>>
notProbe     == <<gateVars, capVars, robVars, estVars, trialVars, diagVars, callVars, utilVars>>
notTrials    == <<gateVars, capVars, robVars, estVars, probeVars, diagVars, callVars, utilVars>>
notDiag      == <<gateVars, capVars, robVars, estVars, probeVars, trialVars, callVars, utilVars>>
notCalls     == <<gateVars, capVars, robVars, estVars, probeVars, trialVars, diagVars, utilVars>>
notUtils     == <<gateVars, capVars, robVars, estVars, probeVars, trialVars, diagVars, callVars>>

(***************************************************************************)
(* Input signal: the sample with global index i of the microphone input    *)
(* has value i; the reference input carries -(i+1) at the same index.      *)
(* Block k holds the frames k*blockSize .. k*blockSize + blockSize - 1.    *)
(***************************************************************************)
MicSample(i) == i
RefSample(i) == 0 - (i + 1)
InputSample(input, i) == IF input = "mic" THEN MicSample(i) ELSE RefSample(i)

\* srcArray[ch].subarray(from, to), copied: the frames from..to-1 of the block
\* that starts at sample index base.
CopyFrames(base, from, to, input) ==
    [j \in 1..(to - from) |-> InputSample(input, base + from + j - 1)]

(***************************************************************************)
(* RecorderProcessor.port.onmessage                                        *)
(***************************************************************************)
GateState == [startAt |-> startAt, endAt |-> endAt, recording |-> recording]

IdleState == [startAt |-> NULL, endAt |-> NULL, recording |-> FALSE]

\* The states of the gate: Idle (no pending window), Armed (a start time is
\* registered, not recording), Recording.
Phase(g) == IF g.recording THEN "Recording"
            ELSE IF g.startAt # NULL THEN "Armed" ELSE "Idle"

Times == 0..MaxTime

NoteCommand(op, s, e) ==
    /\ cmds' = cmds + 1
    /\ last' = [op |-> op, t0 |-> currentTime, phase |-> Phase(GateState),
                pre |-> IdleState, mic |-> FALSE, chunk |-> <<>>, emitted |-> FALSE]
    /\ win' = [op |-> op, start |-> s, end |-> e, phase |-> Phase(GateState),
               inTime |-> (s # NULL /\ currentTime <= s),
               base |-> Len(collectedMic) + Len(port),
               emitted |-> 0, allMic |-> TRUE, ended |-> FALSE, late |-> 0]

OnStartAt(time) ==
    /\ cmds < MaxCmds
    /\ startAt' = time /\ endAt' = NULL /\ recording' = FALSE
    /\ NoteCommand("startAt", time, NULL)
    /\ UNCHANGED <<blockSize, currentTime, refConnected, port,
                   collectedMic, collectedRef, silent>>
    /\ UNCHANGED notGate

OnSetWindow(start, end) ==
    /\ cmds < MaxCmds
    /\ startAt' = start /\ endAt' = end /\ recording' = FALSE
    /\ NoteCommand("setWindow", start, end)
    /\ UNCHANGED <<blockSize, currentTime, refConnected, port,
                   collectedMic, collectedRef, silent>>
    /\ UNCHANGED notGate

OnStop_KeepsWindow ==
    /\ cmds <= MaxCmds
    /\ recording' = FALSE /\ UNCHANGED <<startAt, endAt>>
    /\ NoteCommand("stop", NULL, NULL)
    /\ UNCHANGED <<blockSize, currentTime, refConnected, port,
                   collectedMic, collectedRef, silent>>
    /\ UNCHANGED notGate

\* (a stop may still follow the MaxCmds commands of a run)
OnStop ==
    /\ cmds <= MaxCmds
    /\ recording' = FALSE /\ startAt' = NULL /\ endAt' = NULL
    /\ NoteCommand("stop", NULL, NULL)
    /\ UNCHANGED <<blockSize, currentTime, refConnected, port,
                   collectedMic, collectedRef, silent>>
    /\ UNCHANGED notGate

(***************************************************************************)
(* RecorderProcessor.process                                               *)
(***************************************************************************)
\* floor((this.startAt - t0) * sampleRate), clamped at 0
StartFrameInBlock_Ceil(sAt, t0) ==
    Max(0, (sAt - t0 + TicksPerSample - 1) \div TicksPerSample)

StartFrameInBlock(sAt, t0) == Max(0, (sAt - t0) \div TicksPerSample)

\* floor((this.endAt - t0) * sampleRate), clamped at 0
EndFrameInBlock_Ceil(eAt, t0) ==
    Max(0, (eAt - t0 + TicksPerSample - 1) \div TicksPerSample)

EndFrameInBlock(eAt, t0) == Max(0, (eAt - t0) \div TicksPerSample)

\* The outcome of process() on a block with microphone channels that spans
\* [t0, t1): the new gate state and the frame range copied (emit = FALSE
\* when no message is posted).
ProcessBlock(g, t0, t1, bs) ==
    LET notYet == ~g.recording /\ (g.startAt = NULL \/ g.startAt >= t1)
        startFrame == IF g.recording THEN 0 ELSE StartFrameInBlock(g.startAt, t0)
        pastEnd == g.endAt # NULL /\ g.endAt <= t0
        willStop == g.endAt # NULL /\ g.endAt > t0 /\ g.endAt < t1
        endFrame == IF willStop THEN EndFrameInBlock(g.endAt, t0) ELSE bs
        framesToCopy == Max(0, endFrame - startFrame)
    IN  IF notYet
          THEN [g |-> g, emit |-> FALSE, from |-> 0, to |-> 0]
        ELSE IF pastEnd
          THEN [g |-> [g EXCEPT !.recording = FALSE],
                emit |-> FALSE, from |-> 0, to |-> 0]
        ELSE [g |-> IF willStop
                      THEN [startAt |-> NULL, endAt |-> NULL, recording |-> FALSE]
                      ELSE [g EXCEPT !.recording = TRUE],
              emit |-> framesToCopy > 0,
              from |-> startFrame,
              to   |-> IF framesToCopy > 0 THEN endFrame ELSE startFrame]

BlockTicks == blockSize * TicksPerSample

\* Blocks are processed until every command time has passed, and one more.
MoreBlocks == currentTime <= MaxTime + BlockTicks

Process(hasMic) ==
    /\ MoreBlocks
    /\ hasMic \/ silent < MaxSilent
    /\ LET t0 == currentTime
           t1 == t0 + BlockTicks
           base == t0 \div TicksPerSample
           r == ProcessBlock(GateState, t0, t1, blockSize)
           mic == CopyFrames(base, r.from, r.to, "mic")
           ref == CopyFrames(base, r.from, r.to, "ref")
       IN  /\ currentTime' = t1
           /\ IF hasMic
                THEN /\ startAt' = r.g.startAt
                     /\ endAt' = r.g.endAt
                     /\ recording' = r.g.recording
                     /\ port' = IF r.emit
                                  THEN Append(port, [type |-> "chunk", mic |-> mic,
                                                     hasRef |-> refConnected, ref |-> ref])
                                  ELSE port
                     /\ silent' = silent
                     /\ last' = [op |-> "process", t0 |-> t0, phase |-> Phase(GateState),
                                 pre |-> GateState,
                                 mic |-> TRUE, chunk |-> IF r.emit THEN mic ELSE <<>>,
                                 emitted |-> r.emit]
                     /\ win' = [win EXCEPT
                                  !.emitted = @ + (IF r.emit THEN 1 ELSE 0),
                                  !.late = @ + (IF r.emit /\ win.ended THEN 1 ELSE 0),
                                  !.ended = @ \/ (endAt # NULL /\ r.g.endAt = NULL)]
                ELSE /\ UNCHANGED <<startAt, endAt, recording, port>>
                     /\ silent' = silent + 1
                     /\ last' = [op |-> "process", t0 |-> t0, phase |-> Phase(GateState),
                                 pre |-> GateState,
                                 mic |-> FALSE, chunk |-> <<>>, emitted |-> FALSE]
                     /\ win' = [win EXCEPT !.allMic = FALSE]
    /\ UNCHANGED <<blockSize, refConnected, collectedMic, collectedRef, cmds>>
    /\ UNCHANGED notGate

(***************************************************************************)
(* The chunk listener of calibrateLatency (recorder utilities), and        *)
(* concatFloat32.                                                          *)
(***************************************************************************)
Handler ==
    /\ port # <<>>
    /\ LET data == Head(port)
       IN  /\ collectedMic' = IF data.type = "chunk"
                                THEN Append(collectedMic, data.mic) ELSE collectedMic
           /\ collectedRef' = IF data.type = "chunk" /\ data.hasRef
                                THEN Append(collectedRef, data.ref) ELSE collectedRef
    /\ port' = Tail(port)
    /\ UNCHANGED <<blockSize, currentTime, startAt, endAt, recording,
                   refConnected, last, cmds, silent, win>>
    /\ UNCHANGED notGate

RECURSIVE concatFrom(_, _)
concatFrom(chunks, i) ==
    IF i > Len(chunks) THEN <<>> ELSE chunks[i] \o concatFrom(chunks, i + 1)

RECURSIVE concatNewestFirst(_, _)
concatNewestFirst(chunks, i) ==
    IF i > Len(chunks) THEN <<>> ELSE concatNewestFirst(chunks, i + 1) \o chunks[i]

concatFloat32_Reversed(chunks) == concatNewestFirst(chunks, 1)

concatFloat32(chunks) == concatFrom(chunks, 1)

(***************************************************************************)
(* CaptureWriter: the worklet that writes a fixed number of samples, and   *)
(* the part of playAndRecordCalibration that starts it and awaits 'done'.  *)
(* The input stream carries the samples 1, 2, 3, ... (0 is the zero fill   *)
(* of a fresh Float32Array); a block without channel data carries none.    *)
(***************************************************************************)
MaxRollMs   == 1    \* preRollMs and postRollMs are drawn from 0..MaxRollMs
MaxRefLen   == 2    \* ref.length is drawn from 0..MaxRefLen
MaxBlockLen == 3    \* ch0.length is drawn from 1..MaxBlockLen
MaxInput    == 6    \* input samples delivered in one run
MaxStarts   == 2    \* 'start' commands in one run
MaxNoData   == 1    \* blocks without channel data in one run

CaptureRates == {500, 1000}     \* sampleRate values explored (Hz)

CeilDiv(a, b) == (a + b - 1) \div b

\* totalMs = preRollMs + (ref.length / sampleRate) * 1000 + postRollMs
\* totalSamples = Math.ceil((totalMs / 1000) * sampleRate)
TotalSamples(preRollMs, refLen, postRollMs, sr) ==
    CeilDiv(preRollMs * sr + refLen * 1000 + postRollMs * sr, 1000)

\* e.data.samples|0 (the modelled targets are far below 2^31)
ToInt32(n) == n

\* new Float32Array(n)
Zeros(n) == [i \in 1..n |-> 0]

\* this.buf.set(src, at)
BufSet(b, src, at) ==
    [i \in 1..Len(b) |-> IF i > at /\ i <= at + Len(src) THEN src[i - at] ELSE b[i]]

\* need = Math.min(ch0.length, this.target - this.writeIdx)
Need_WholeBlock(len, tgt, idx) == len

Need(len, tgt, idx) == Min(len, tgt - idx)

\* if (this.writeIdx >= this.target): the capture is complete
ReachedTarget_Beyond(idx, tgt) == idx > tgt

ReachedTarget(idx, tgt) == idx >= tgt

\* CaptureWriter.port.onmessage, on the 'start' that playAndRecordCalibration
\* posts with samples = totalSamples
OnStart(samples) ==
    /\ cwStarts < MaxStarts
    /\ target' = ToInt32(samples)
    /\ buf' = Zeros(ToInt32(samples))
    /\ writeIdx' = 0
    /\ cwRecording' = TRUE
    /\ cwStarts' = cwStarts + 1
    /\ startSample' = nextSample
    /\ cwLast' = [op |-> "start", done |-> FALSE, len |-> 0, need |-> 0,
                posted |-> <<>>]
    /\ UNCHANGED <<cwPort, micDone, micResult, nextSample, cwSilent>>
    /\ UNCHANGED notCapture

\* CaptureWriter.process on a block whose channel 0 has len samples
\* (hasData = FALSE: inputs[0] has no channel)
CwProcess(hasData, len) ==
    /\ IF hasData THEN nextSample + len - 1 <= MaxInput
                  ELSE len = 1 /\ cwSilent < MaxNoData
    /\ nextSample' = IF hasData THEN nextSample + len ELSE nextSample
    /\ cwSilent' = IF hasData THEN cwSilent ELSE cwSilent + 1
    /\ IF cwRecording /\ hasData
         THEN LET ch0 == [j \in 1..len |-> nextSample + j - 1]
                  need == Need(len, target, writeIdx)
                  written == BufSet(buf, SubSeq(ch0, 1, need), writeIdx)
                  done == ReachedTarget(writeIdx + need, target)
              IN  /\ writeIdx' = writeIdx + need
                  /\ cwRecording' = ~done
                  /\ cwPort' = IF done
                                 THEN Append(cwPort, [type |-> "done", samples |-> written])
                                 ELSE cwPort
                  \* the buffer is transferred with the message
                  /\ buf' = IF done THEN <<>> ELSE written
                  /\ cwLast' = [op |-> "process", done |-> done,
                                len |-> len, need |-> need,
                                posted |-> IF done THEN written ELSE <<>>]
         ELSE /\ UNCHANGED <<writeIdx, cwRecording, cwPort, buf>>
              /\ cwLast' = [op |-> "skip", done |-> FALSE, len |-> len, need |-> 0,
                            posted |-> <<>>]
    /\ UNCHANGED <<target, micDone, micResult, startSample, cwStarts>>
    /\ UNCHANGED notCapture

\* node.port.onmessage of playAndRecordCalibration
OnDone ==
    /\ cwPort # <<>>
    /\ LET data == Head(cwPort)
       IN  IF data.type = "done" /\ ~micDone
             THEN micDone' = TRUE /\ micResult' = data.samples
             ELSE UNCHANGED <<micDone, micResult>>
    /\ cwPort' = Tail(cwPort)
    /\ UNCHANGED <<buf, writeIdx, target, cwRecording, nextSample, startSample,
                   cwStarts, cwSilent, cwLast>>
    /\ UNCHANGED notCapture

\* CaptureWriter constructor
CaptureIdle ==
    /\ buf = <<>> /\ writeIdx = 0 /\ target = 0 /\ cwRecording = FALSE
    /\ cwPort = <<>> /\ micDone = FALSE /\ micResult = <<>>
    /\ nextSample = 1 /\ startSample = 1 /\ cwStarts = 0 /\ cwSilent = 0
    /\ cwLast = [op |-> "init", done |-> FALSE, len |-> 0, need |-> 0,
               posted |-> <<>>]

CaptureNext ==
    \/ \E pre \in 0..MaxRollMs, post \in 0..MaxRollMs, n \in 0..MaxRefLen,
          sr \in CaptureRates : OnStart(TotalSamples(pre, n, post, sr))
    \/ \E hasData \in BOOLEAN, len \in 1..MaxBlockLen : CwProcess(hasData, len)
    \/ OnDone

(***************************************************************************)
(* calibrateLatencyRobust, with the probe generation of calibrateLatency.  *)
(* Amplitudes are integers in units of 1/AmpScale, scores in hundredths,   *)
(* RMS levels in thousandths; one trial (probe playback, capture,          *)
(* estimation) is a step that yields one of TrialOutcomes.                 *)
(***************************************************************************)
MaxAttempts == 4                \* opts.attempts is drawn from 0..MaxAttempts

AmpScale == 10 * 1000 * 1000    \* amplitude 1.0
NegInf   == 0 - 1000            \* the score -Infinity (scores are -100..100)

DefaultMinScore == 20           \* minScore = 0.2
DefaultChirpAmp == (6 * AmpScale) \div 10       \* chirp?.amp ?? 0.6
DefaultMlsAmp   == (35 * AmpScale) \div 100     \* mls = { ..., amp: 0.35 }
AmpFloor        == (2 * AmpScale) \div 10       \* Math.max(0.2, ...)
AmpCeiling      == (95 * AmpScale) \div 100     \* Math.min(0.95, ...)
QuietRms        == 30           \* (res.micRms ?? 0) < 0.03

\* What one calibrateLatency call may resolve with (sampleRate 1000 Hz, so
\* lagMs = lagSamples): { ...res, micRms, micClipped }.
Outcome(lagSamples, score, rms, clipped) ==
    [lagSamples |-> lagSamples, lagMs |-> lagSamples, score |-> score,
     micRms |-> rms, micClipped |-> clipped]

TrialOutcomes ==
    { Outcome(10, 90, 100, FALSE),      \* a clean trial
      Outcome(20, 20, 20, FALSE),       \* score exactly 0.2, quiet capture
      Outcome(30, 50, 300, TRUE),       \* clipped capture
      Outcome(20, 5, 30, FALSE),        \* low score, RMS exactly 0.03
      Outcome(0, NegInf, 0, FALSE),     \* no lag evaluated, silent capture
      Outcome(40, 90, 10, TRUE),        \* clipped and quiet
      Outcome(30, 19, 100, FALSE) }     \* score just below 0.2

RobustOptions ==
    [attempts : 0..MaxAttempts,
     minScore : {NULL, 50},
     mode     : {"undefined", "chirp", "mls"},
     chirpAmp : {NULL, (9 * AmpScale) \div 10},
     mlsAmp   : {NULL, AmpScale \div 2},
     adaptAmp : {NULL, 0}]          \* 0: false

\* destructuring defaults of calibrateLatencyRobust
MinScoreOf(o) == IF o.minScore = NULL THEN DefaultMinScore ELSE o.minScore
AdaptAmpOf(o) == IF o.adaptAmp = NULL THEN TRUE ELSE o.adaptAmp # 0

\* The amplitude calibrateLatency generates the probe with, given the options
\* calibrateLatencyRobust passes: chirp: { ...chirp, amp: currentAmp }, mls.
ProbeAmp(o, amp) ==
    IF o.mode = "mls"
      THEN (IF o.mlsAmp = NULL THEN DefaultMlsAmp ELSE o.mlsAmp)
      ELSE amp

\* res && typeof res.score === 'number' && res.score >= minScore
IsValid_Strict(res, minScore) == res.score > minScore

IsValid(res, minScore) == res.score >= minScore

\* the adaptation of currentAmp after a trial
AdaptedAmp(amp, res) ==
    IF res.micClipped THEN Max(AmpFloor, (amp * 6) \div 10)
    ELSE IF (IF res.micRms = NULL THEN 0 ELSE res.micRms) < QuietRms
      THEN Min(AmpCeiling, (amp * 14) \div 10)
    ELSE amp

\* [...arr].sort((a, b) => a.lagSamples - b.lagSamples): a stable sort
InsertByLag(r, sorted) ==
    LET k == Cardinality({j \in 1..Len(sorted) : sorted[j].lagSamples <= r.lagSamples})
    IN  SubSeq(sorted, 1, k) \o <<r>> \o SubSeq(sorted, k + 1, Len(sorted))

RECURSIVE SortByLag(_)
SortByLag(arr) ==
    IF arr = <<>> THEN <<>>
    ELSE InsertByLag(arr[Len(arr)], SortByLag(SubSeq(arr, 1, Len(arr) - 1)))

\* sorted[Math.floor(sorted.length / 2)]  (arr is not empty)
pickMedianByLag(arr) == SortByLag(arr)[(Len(arr) \div 2) + 1]

DefaultResult ==
    [lagSamples |-> 0, lagMs |-> 0, score |-> 0, micRms |-> NULL, micClipped |-> FALSE]

\* (!bestSoFar || (cur.score ?? -Infinity) > bestSoFar.score ? cur : bestSoFar)
Better_Lower(cur, bestSoFar) == cur.score < bestSoFar.score

Better(cur, bestSoFar) == cur.score > bestSoFar.score

RECURSIVE BestFrom(_, _, _)
BestFrom(arr, i, bestSoFar) ==
    IF i > Len(arr) THEN bestSoFar
    ELSE BestFrom(arr, i + 1, IF Better(arr[i], bestSoFar) THEN arr[i] ELSE bestSoFar)

\* results.reduce(..., null) || { lagSamples: 0, lagMs: 0, score: 0 }
BestOrDefault(arr) ==
    IF arr = <<>> THEN DefaultResult ELSE BestFrom(arr, 2, arr[1])

\* the call of calibrateLatency of iteration i, up to the probe generation
StartTrial ==
    /\ rpc = "loop" /\ trial < opts.attempts
    /\ probeAmps' = Append(probeAmps, ProbeAmp(opts, currentAmp))
    /\ rpc' = "trial"
    /\ UNCHANGED <<opts, trial, results, valid, currentAmp, returned>>
    /\ UNCHANGED notRobust

\* calibrateLatency resolves with res; the rest of the loop body
TrialDone(res) ==
    /\ rpc = "trial"
    /\ results' = Append(results, res)
    /\ valid' = IF IsValid(res, MinScoreOf(opts)) THEN Append(valid, res) ELSE valid
    /\ currentAmp' = IF AdaptAmpOf(opts) THEN AdaptedAmp(currentAmp, res) ELSE currentAmp
    /\ trial' = trial + 1
    /\ rpc' = "loop"
    /\ UNCHANGED <<opts, returned, probeAmps>>
    /\ UNCHANGED notRobust

\* after the loop: the median of the valid trials, or the best of all
Finish ==
    /\ rpc = "loop" /\ trial >= opts.attempts
    /\ returned' = IF Len(valid) >= 3 THEN pickMedianByLag(valid)
                   ELSE IF Len(valid) > 0 THEN pickMedianByLag(valid)
                   ELSE BestOrDefault(results)
    /\ rpc' = "done"
    /\ UNCHANGED <<opts, trial, results, valid, currentAmp, probeAmps>>
    /\ UNCHANGED notRobust

RobustIdle ==
    /\ opts = [attempts |-> 0, minScore |-> NULL, mode |-> "undefined",
               chirpAmp |-> NULL, mlsAmp |-> NULL, adaptAmp |-> NULL]
    /\ rpc = "idle" /\ trial = 0 /\ results = <<>> /\ valid = <<>>
    /\ currentAmp = DefaultChirpAmp /\ returned = DefaultResult /\ probeAmps = <<>>

\* entry of calibrateLatencyRobust(audioCtx, opts)
RobustStart ==
    /\ opts \in RobustOptions
    /\ rpc = "loop" /\ trial = 0 /\ results = <<>> /\ valid = <<>>
    /\ currentAmp = (IF opts.chirpAmp = NULL THEN DefaultChirpAmp ELSE opts.chirpAmp)
    /\ returned = DefaultResult /\ probeAmps = <<>>

RobustNext ==
    \/ StartTrial
    \/ \E res \in TrialOutcomes : TrialDone(res)
    \/ Finish

(***************************************************************************)
(* estimateLagNormalized(mic, ref, sampleRate, opts)                       *)
(*                                                                         *)
(* The function exists twice: in the calibration module                    *)
(* (src/unnamed/part_000:309-352, minimum overlap 16) and among the        *)
(* recorder utilities (src/src/recorder-processor.js:101-155, minimum      *)
(* overlap 8).  The two differ in that constant only; estIn.file selects.  *)
(*                                                                         *)
(* Samples are integers and the arithmetic is exact: the inputs are drawn  *)
(* from signals whose mean is an integer, so that zeroMean stays within    *)
(* the integers, and scores dot / sqrt(xx * yy) are kept as the pair       *)
(* (dot, xx * yy) and compared exactly.  Floating-point rounding is not    *)
(* modelled.                                                               *)
(***************************************************************************)
MaxDelay == 10
MaxDc == 1
MaxMicLen == 26

MinLength == 8
MinOverlapCalibration == 16
MinOverlapRecorder == 8
DefaultMaxLagMs == 120

EstFiles == {"part_000", "recorder-processor.js"}

MinOverlapOf(file) ==
    IF file = "part_000" THEN MinOverlapCalibration ELSE MinOverlapRecorder

RECURSIVE SumSeq(_, _)
SumSeq(a, n) == IF n = 0 THEN 0 ELSE a[n] + SumSeq(a, n - 1)

\* zeroMean(a) for a signal whose mean m is an integer
zeroMean(a) ==
    IF Len(a) = 0 THEN a
    ELSE LET m == SumSeq(a, Len(a)) \div Len(a) IN [i \in 1..Len(a) |-> a[i] - m]

\* the sum of a[i] * b[i + shift] over the 0-based indices from <= i < to
RECURSIVE Corr(_, _, _, _, _)
Corr(a, b, from, to, shift) ==
    IF from >= to THEN 0
    ELSE a[from + 1] * b[from + shift + 1] + Corr(a, b, from + 1, to, shift)

\* a score: -Infinity, or dot / sqrt(q) with q = xx * yy > 0
MinusInfinity == [ninf |-> TRUE, dot |-> 0, q |-> 1]
ZeroScore == [ninf |-> FALSE, dot |-> 0, q |-> 1]

\* a / b < c / d for a, c >= 0 and b, d > 0, without forming products
RECURSIVE FracLess(_, _, _, _)
FracLess(a, b, c, d) ==
    IF a \div b # c \div d THEN a \div b < c \div d
    ELSE IF c % d = 0 THEN FALSE
    ELSE IF a % b = 0 THEN TRUE
    ELSE FracLess(d, c % d, b, a % b)

\* s > t
ScoreGreater(s, t) ==
    IF s.ninf THEN FALSE
    ELSE IF t.ninf THEN TRUE
    ELSE IF s.dot >= 0 /\ t.dot < 0 THEN TRUE
    ELSE IF s.dot < 0 /\ t.dot >= 0 THEN FALSE
    ELSE IF s.dot >= 0 THEN FracLess(t.dot * t.dot, t.q, s.dot * s.dot, s.q)
    ELSE FracLess(s.dot * s.dot, s.q, t.dot * t.dot, t.q)

\* evalLag(lag)
evalLag(xs, ys, l, minOverlap) ==
    LET yStart == Max(0, 0 - l)
        yEnd   == Min(Len(ys), Len(xs) - l)
        dot    == Corr(ys, xs, yStart, yEnd, l)
        xx     == Corr(xs, xs, yStart + l, yEnd + l, 0)
        yy     == Corr(ys, ys, yStart, yEnd, 0)
    IN  IF yEnd - yStart < minOverlap THEN MinusInfinity
        ELSE IF xx <= 0 \/ yy <= 0 THEN MinusInfinity
        ELSE [ninf |-> FALSE, dot |-> dot, q |-> xx * yy]

LongerLength(xs, ys) == Max(Len(xs), Len(ys))

MaxLagOf(maxLagMs, sampleRate, xs, ys) ==
    Min((maxLagMs * sampleRate) \div 1000, LongerLength(xs, ys) \div 2)

FirstLag_Negative(allowNegative, m) == 0 - m

\* the lag the loop starts from: -maxLag with allowNegative, else 0
FirstLag(allowNegative, m) == IF allowNegative THEN 0 - m ELSE 0

ZeroConfidence == [lagSamples |-> 0, lagMs |-> 0, score |-> ZeroScore]

\* ---- the input signals ----
Shapes == {"zero", "doublet", "alternating"}

\* a signal of n samples with mean 0
Base(shape, n) ==
    [i \in 1..n |->
        IF shape = "doublet" THEN (IF i = 2 THEN 1 ELSE IF i = 3 THEN 0 - 1 ELSE 0)
        ELSE IF shape = "alternating" THEN (IF i % 2 = 1 THEN 1 ELSE 0 - 1)
        ELSE 0]

Offset(s, c) == [i \in 1..Len(s) |-> s[i] + c]

\* r delayed by k samples, zero-padded (or cut) to n samples
Delayed(r, k, n) ==
    [i \in 1..n |-> IF i > k /\ i - k <= Len(r) THEN r[i - k] ELSE 0]

RefLens == {4, 8, 16}
MicLens == {4, 16, MaxMicLen}
EstRates == {<<1000, DefaultMaxLagMs>>, <<1000, 3>>, <<500, 5>>}

IntegralMean(s) == SumSeq(s, Len(s)) % Len(s) = 0

EstSignals ==
    { <<Offset(Delayed(Base(ms, rl), k, ml), dc), Offset(Base(rs, rl), dc)>> :
        ms \in Shapes, rs \in Shapes, rl \in RefLens, ml \in MicLens,
        k \in 0..MaxDelay, dc \in 0..MaxDc }

EstInputs ==
    { [mic |-> sg[1], ref |-> sg[2], sampleRate |-> r[1], maxLagMs |-> r[2],
       allowNegative |-> an, file |-> f] :
        sg \in {g \in EstSignals : IntegralMean(g[1]) /\ IntegralMean(g[2])},
        r \in EstRates, an \in BOOLEAN, f \in EstFiles }

\* toF32, zeroMean, the early out, maxLag and the loop's first lag
EstEnter ==
    /\ epc = "entry"
    /\ x' = zeroMean(estIn.mic)
    /\ y' = zeroMean(estIn.ref)
    /\ IF Len(estIn.mic) < MinLength \/ Len(estIn.ref) < MinLength
       THEN /\ estResult' = ZeroConfidence
            /\ epc' = "done"
            /\ UNCHANGED <<maxLag, lag>>
       ELSE /\ maxLag' = MaxLagOf(estIn.maxLagMs, estIn.sampleRate, estIn.mic, estIn.ref)
            /\ lag' = FirstLag(estIn.allowNegative, maxLag')
            /\ epc' = "scan"
            /\ UNCHANGED estResult
    /\ UNCHANGED <<estIn, bestLag, bestScore, evaluated>>
    /\ UNCHANGED notEstimator

\* one iteration of the loop over lag
EstEvalLag ==
    /\ epc = "scan"
    /\ lag <= maxLag
    /\ LET s == evalLag(x, y, lag, MinOverlapOf(estIn.file))
       IN  IF ScoreGreater(s, bestScore)
           THEN bestScore' = s /\ bestLag' = lag
           ELSE UNCHANGED <<bestScore, bestLag>>
    /\ evaluated' = evaluated \cup {lag}
    /\ lag' = lag + 1
    /\ UNCHANGED <<estIn, x, y, maxLag, epc, estResult>>
    /\ UNCHANGED notEstimator

\* return { lagSamples, lagMs, score }
EstReturn ==
    /\ epc = "scan"
    /\ lag > maxLag
    /\ estResult' = [lagSamples |-> bestLag,
                     lagMs |-> (bestLag * 1000) \div estIn.sampleRate,
                     score |-> bestScore]
    /\ epc' = "done"
    /\ UNCHANGED <<estIn, x, y, maxLag, lag, bestLag, bestScore, evaluated>>
    /\ UNCHANGED notEstimator

EstLocals ==
    /\ x = <<>> /\ y = <<>> /\ maxLag = 0 /\ lag = 0
    /\ bestLag = 0 /\ bestScore = MinusInfinity
    /\ estResult = ZeroConfidence /\ evaluated = {}

EstIdle ==
    /\ estIn = [mic |-> <<>>, ref |-> <<>>, sampleRate |-> 1000,
                maxLagMs |-> DefaultMaxLagMs, allowNegative |-> FALSE,
                file |-> "part_000"]
    /\ epc = "idle"
    /\ EstLocals

EstStart ==
    /\ estIn \in EstInputs
    /\ epc = "entry"
    /\ EstLocals

EstNext ==
    \/ EstEnter
    \/ EstEvalLag
    \/ EstReturn

(***************************************************************************)
(* Probe generation: makeMLSSequence and makeLogChirp                      *)
(* (src/unnamed/part_000:142-192, applyFades 356-363).                     *)
(*                                                                         *)
(* The LFSR loop of makeMLSSequence is run step by step.  The block `one`  *)
(* and the buffer y are not kept whole: oneFirst and oneLast are one[0]    *)
(* and the sample written last, and yEdges holds the first and the last    *)
(* sample of y.  The chirp's cosine is not computed: the carrier is one of *)
(* a few sequences of full-scale samples, to which amp and applyFades are  *)
(* applied exactly.                                                        *)
(***************************************************************************)
MaxRepeats == 2
MaxDurationMs == 10
MaxFadeMs == 9

MinOrder == 2
MaxOrder == 20
MinChirpLen == 8

Pow2(n) == 2 ^ n

\* (v >> t) & 1
BitAt(v, t) == (v \div Pow2(t)) % 2

\* tapsByOrder[order] || [order - 1]
TapsOf_Fallback(order) == <<order - 1>>

TapsOf(order) ==
    CASE order = 10 -> <<3>>
      [] order = 11 -> <<2>>
      [] order = 12 -> <<6, 4, 1>>
      [] order = 13 -> <<4, 3, 1>>
      [] order = 14 -> <<5, 3, 1>>
      [] order = 15 -> <<14>>
      [] order = 16 -> <<15, 13, 4>>
      [] order = 17 -> <<14>>
      [] order = 18 -> <<11>>
      [] order = 19 -> <<6, 5, 1>>
      [] order = 20 -> <<17>>
      [] OTHER -> <<order - 1>>

\* fb after `for (const t of taps) fb ^= (reg >> t) & 1`, starting from fb
RECURSIVE Feedback(_, _, _, _)
Feedback(fb, v, taps, n) ==
    IF n > Len(taps) THEN fb
    ELSE Feedback((fb + BitAt(v, taps[n])) % 2, v, taps, n + 1)

\* one step of the shift register
LfsrStep(v, order) ==
    (v \div 2) + Feedback(v % 2, v, TapsOf(order), 1) * Pow2(order - 1)

\* Math.round(ms / 1000 * sr) for ms, sr >= 0
RoundMs(ms, sr) == (2 * ms * sr + 1000) \div 2000

FadeN(fadeMs, sr) == Max(1, RoundMs(fadeMs, sr))

FadeGain_Offset(i, fadeN) == i + 1

\* the gain g = i / fadeN of applyFades, as the numerator over fadeN
FadeGain(i, fadeN) == i

\* applyFades(y, sr, fadeMs) on a buffer held in units that fadeN^2 divides;
\* the samples are y[1..N], the loop index i is 0-based
RECURSIVE applyFades(_, _, _)
applyFades(b, fadeN, i) ==
    IF i >= fadeN THEN b
    ELSE LET N  == Len(b)
             b1 == IF i + 1 <= N
                   THEN [b EXCEPT ![i + 1] = (b[i + 1] * FadeGain(i, fadeN)) \div fadeN]
                   ELSE b
             b2 == IF N - i >= 1
                   THEN [b1 EXCEPT ![N - i] = (b1[N - i] * FadeGain(i, fadeN)) \div fadeN]
                   ELSE b1
         IN  applyFades(b2, fadeN, i + 1)

\* the values cos(...) takes, as full-scale samples +1 / -1
Carriers == {"positive", "alternating"}

Carrier(kind, n) == IF kind = "alternating" /\ n % 2 = 1 THEN 0 - 1 ELSE 1

\* makeLogChirp(sr, durationMs, f0, f1, amp, fadeMs)
makeLogChirp(sr, durationMs, carrier, amp, fadeMs) ==
    LET N     == Max(MinChirpLen, RoundMs(durationMs, sr))
        fadeN == FadeN(fadeMs, sr)
        raw   == [n \in 1..N |-> Carrier(carrier, n - 1) * amp * fadeN * fadeN]
    IN  applyFades(raw, fadeN, 0)

ProbeInputs ==
    [mode : {"chirp"}, sr : CaptureRates, amp : {DefaultChirpAmp},
     durationMs : 1..MaxDurationMs, fadeMs : 0..MaxFadeMs, carrier : Carriers,
     order : {0}]
    \cup
    [mode : {"mls"}, sr : {1000}, amp : {DefaultMlsAmp},
     durationMs : {0}, fadeMs : {0}, carrier : {"positive"},
     order : (MinOrder - 1)..(MaxOrder + 1)]

NoEdges == [first |-> 0, last |-> 0, len |-> 0]

\* makeLogChirp, whole
ChirpGenerate ==
    /\ ppc = "entry" /\ probeIn.mode = "chirp"
    /\ chirpY' = makeLogChirp(probeIn.sr, probeIn.durationMs, probeIn.carrier,
                              probeIn.amp, probeIn.fadeMs)
    /\ yEdges' = [first |-> chirpY'[1], last |-> chirpY'[Len(chirpY')],
                  len |-> Len(chirpY')]
    /\ ppc' = "done"
    /\ UNCHANGED <<probeIn, reg, mlsIdx, oneFirst, oneLast>>
    /\ UNCHANGED notProbe

\* makeMLSSequence: the order check
MlsThrow ==
    /\ ppc = "entry" /\ probeIn.mode = "mls"
    /\ (probeIn.order < MinOrder \/ probeIn.order > MaxOrder)
    /\ ppc' = "thrown"
    /\ UNCHANGED <<probeIn, reg, mlsIdx, oneFirst, oneLast, chirpY, yEdges>>
    /\ UNCHANGED notProbe

\* makeMLSSequence: len, taps, reg = 1
MlsEnter ==
    /\ ppc = "entry" /\ probeIn.mode = "mls"
    /\ ~(probeIn.order < MinOrder \/ probeIn.order > MaxOrder)
    /\ reg' = 1 /\ mlsIdx' = 0
    /\ ppc' = "lfsr"
    /\ UNCHANGED <<probeIn, oneFirst, oneLast, chirpY, yEdges>>
    /\ UNCHANGED notProbe

\* one iteration of the loop filling `one`
MlsStep ==
    /\ ppc = "lfsr"
    /\ mlsIdx < Pow2(probeIn.order) - 1
    /\ LET sample == IF reg % 2 = 1 THEN 1 ELSE 0 - 1
       IN  /\ oneLast' = sample
           /\ oneFirst' = (IF mlsIdx = 0 THEN sample ELSE oneFirst)
    /\ reg' = LfsrStep(reg, probeIn.order)
    /\ mlsIdx' = mlsIdx + 1
    /\ UNCHANGED <<probeIn, ppc, chirpY, yEdges>>
    /\ UNCHANGED notProbe

\* the block repeated `repeats` times, scaled by amp, returned (the argument
\* repeats is not read before this point: it is drawn here)
MlsFinish(repeats) ==
    /\ ppc = "lfsr"
    /\ mlsIdx >= Pow2(probeIn.order) - 1
    /\ yEdges' = [first |-> oneFirst * probeIn.amp, last |-> oneLast * probeIn.amp,
                  len |-> (Pow2(probeIn.order) - 1) * repeats]
    /\ ppc' = "done"
    /\ UNCHANGED <<probeIn, reg, mlsIdx, oneFirst, oneLast, chirpY>>
    /\ UNCHANGED notProbe

ProbeLocals ==
    /\ reg = 0 /\ mlsIdx = 0 /\ oneFirst = 0 /\ oneLast = 0
    /\ chirpY = <<>> /\ yEdges = NoEdges

ProbeIdle ==
    /\ probeIn = [mode |-> "chirp", sr |-> 1000, amp |-> DefaultChirpAmp,
                  durationMs |-> 0, fadeMs |-> 0, carrier |-> "positive",
                  order |-> 0]
    /\ ppc = "idle"
    /\ ProbeLocals

ProbeStart ==
    /\ probeIn \in ProbeInputs
    /\ ppc = "entry"
    /\ ProbeLocals

ProbeNext ==
    \/ ChirpGenerate
    \/ MlsThrow
    \/ MlsEnter
    \/ MlsStep
    \/ \E repeats \in 1..MaxRepeats : MlsFinish(repeats)

(***************************************************************************)
(* The trials of one calibrateLatencyRobust call, in time                  *)
(* (src/unnamed/part_000: the loop 91-104, playAndRecordCalibration        *)
(* 196-259, CaptureWriter 268-298).                                        *)
(*                                                                         *)
(* Three parties run side by side: the main thread, which awaits           *)
(* getUserMedia, the sleep and the 'done' message; the audio thread, which *)
(* calls process() of every capture-writer node once per block (here one   *)
(* sample) as the clock advances; and the buffer sources, each playing its *)
(* probe for ref.length samples from the moment start() is called.  A      *)
(* timer never fires early but may fire late.  Time is counted in samples, *)
(* 1 sample = 1 ms.                                                        *)
(***************************************************************************)
MaxTrials == 2
MaxProbeLen == 2

TrialInputs ==
    [attempts : 0..MaxTrials, preRollMs : 0..MaxRollMs, postRollMs : 0..MaxRollMs,
     refLen : 1..MaxProbeLen, micLive : BOOLEAN]

\* a capture-writer node: the CaptureWriter fields, the 'start' message on
\* its way to it, the 'done' message on its way back
NewNode ==
    [connected |-> TRUE, startPending |-> FALSE, recording |-> FALSE,
     writeIdx |-> 0, target |-> 0, donePosted |-> FALSE, doneReceived |-> FALSE]

Recording(nodes) == {j \in 1..Len(nodes) : nodes[j].recording}

\* the for loop enters trial i: calibrateLatency -> playAndRecordCalibration
\* -> await getUserMedia
TrialBegin ==
    /\ tpc = "loop"
    /\ Len(tNodes) < tIn.attempts
    /\ tpc' = "acquire"
    /\ UNCHANGED <<tIn, tBeat, tSleepLeft, tNodes, tProbes>>
    /\ UNCHANGED notTrials

\* getUserMedia rejects: the call rejects
AcquireRejected ==
    /\ tpc = "acquire"
    /\ tpc' = "rejected"
    /\ UNCHANGED <<tIn, tBeat, tSleepLeft, tNodes, tProbes>>
    /\ UNCHANGED notTrials

\* the node is created and connected, 'start' is posted, sleep is called
PostStart ==
    /\ tpc = "acquire"
    /\ tNodes' = Append(tNodes,
                        [NewNode EXCEPT !.startPending = TRUE,
                                        !.target = TotalSamples(tIn.preRollMs, tIn.refLen,
                                                                tIn.postRollMs, 1000)])
    /\ tSleepLeft' = tIn.preRollMs
    /\ tpc' = "sleep"
    /\ UNCHANGED <<tIn, tBeat, tProbes>>
    /\ UNCHANGED notTrials

\* CaptureWriter.port.onmessage of node j
NodeOnStart(j) ==
    /\ j \in 1..Len(tNodes)
    /\ tNodes[j].startPending
    /\ tNodes' = [tNodes EXCEPT ![j].startPending = FALSE, ![j].recording = TRUE,
                                ![j].writeIdx = 0]
    /\ UNCHANGED <<tIn, tpc, tBeat, tSleepLeft, tProbes>>
    /\ UNCHANGED notTrials

\* the sleep resolves; the buffer source is started at currentTime
PlayProbe ==
    /\ tpc = "sleep"
    /\ tSleepLeft = 0
    /\ tProbes' = tProbes \cup {[trial |-> Len(tNodes), left |-> tIn.refLen]}
    /\ tpc' = "await"
    /\ UNCHANGED <<tIn, tBeat, tSleepLeft, tNodes>>
    /\ UNCHANGED notTrials

\* CaptureWriter.process of one node on a block of one sample
NodeProcess(n, hasData) ==
    IF n.recording /\ hasData
    THEN LET need == Need(1, n.target, n.writeIdx)
             done == n.writeIdx + need >= n.target
         IN  [n EXCEPT !.writeIdx = n.writeIdx + need,
                       !.recording = ~done,
                       !.donePosted = done]
    ELSE n

\* one block of audio time passes: every node's process() is called, every
\* playing source plays one sample, a pending timer comes one sample closer
Tick ==
    /\ tBeat' = 1 - tBeat
    /\ tSleepLeft' = Max(0, tSleepLeft - 1)
    /\ tNodes' = [j \in 1..Len(tNodes) |->
                    NodeProcess(tNodes[j], tNodes[j].connected /\ tIn.micLive)]
    /\ tProbes' = {[trial |-> pr.trial, left |-> pr.left - 1] :
                      pr \in {q \in tProbes : q.left > 1}}
    /\ UNCHANGED <<tIn, tpc>>
    /\ UNCHANGED notTrials

\* node.port.onmessage receives 'done': the promise resolves, the nodes are
\* disconnected, calibrateLatency returns and the loop pushes the result
OnTrialDone ==
    /\ tpc = "await"
    /\ tNodes[Len(tNodes)].donePosted
    /\ tNodes' = [tNodes EXCEPT ![Len(tNodes)].doneReceived = TRUE,
                                ![Len(tNodes)].connected = FALSE]
    /\ tpc' = "loop"
    /\ UNCHANGED <<tIn, tBeat, tSleepLeft, tProbes>>
    /\ UNCHANGED notTrials

\* the loop ends: calibrateLatencyRobust returns
TrialsReturn ==
    /\ tpc = "loop"
    /\ Len(tNodes) >= tIn.attempts
    /\ tpc' = "returned"
    /\ UNCHANGED <<tIn, tBeat, tSleepLeft, tNodes, tProbes>>
    /\ UNCHANGED notTrials

TrialLocals == tBeat = 0 /\ tSleepLeft = 0 /\ tNodes = <<>> /\ tProbes = {}

TrialsIdle ==
    /\ tIn = [attempts |-> 0, preRollMs |-> 0, postRollMs |-> 0, refLen |-> 1,
              micLive |-> TRUE]
    /\ tpc = "idle"
    /\ TrialLocals

TrialsStart ==
    /\ tIn \in TrialInputs
    /\ tpc = "loop"
    /\ TrialLocals

TrialsNext ==
    \/ TrialBegin
    \/ AcquireRejected
    \/ PostStart
    \/ \E j \in 1..MaxTrials : NodeOnStart(j)
    \/ PlayProbe
    \/ Tick
    \/ OnTrialDone
    \/ TrialsReturn

(***************************************************************************)
(* The diagnostics of calibrateLatency (src/unnamed/part_000:41-64): what  *)
(* the function does with the captured buffer mic once                     *)
(* playAndRecordCalibration has returned it.  Samples are counted in       *)
(* hundredths of full scale, so 0.98 is 98.  The estimator's result res is *)
(* spread into the returned object and carries no diagnostics.             *)
(***************************************************************************)
MaxCaptured == 2    \* mic.length is drawn from 0..MaxCaptured

ClipThreshold == 98

CapturedSamples == {0 - 100, 0 - 99, 0 - 98, 0 - 97, 0 - 50, 0, 50, 97, 98, 99, 100}

CapturedBuffers ==
    UNION {[1..n -> CapturedSamples] : n \in 0..MaxCaptured}

FilterCutoffs == {0, 150}   \* filterHpHz: 0 (no filter) and the default

\* alpha = RC / (RC + dt) of highPassIIR for 150 Hz at 48000 Hz, 0.98074...,
\* as the fraction AlphaNum / AlphaDen
AlphaNum == 51
AlphaDen == 52

\* highPassIIR(x, sr, cutoffHz): y[i] = alpha * (y[i-1] + x[i] - x[i-1]), a
\* new array.  y[i] is kept exactly, as the fraction num / AlphaDen^i.
RECURSIVE hpNum(_, _)
hpNum(xs, i) ==
    IF i = 0 THEN 0
    ELSE AlphaNum * (hpNum(xs, i - 1)
                     + (xs[i] - (IF i = 1 THEN 0 ELSE xs[i - 1])) * AlphaDen ^ (i - 1))

highPassIIR(xs) == [i \in 1..Len(xs) |-> [num |-> hpNum(xs, i), den |-> AlphaDen ^ i]]

\* a buffer handed on unfiltered
Unfiltered(xs) == [i \in 1..Len(xs) |-> [num |-> xs[i], den |-> 1]]

\* Math.min() and Math.max() of no argument
Infinity == 100 * 100

RECURSIVE MinOf(_, _)
MinOf(xs, i) == IF i > Len(xs) THEN Infinity ELSE Min(xs[i], MinOf(xs, i + 1))

RECURSIVE MaxOf(_, _)
MaxOf(xs, i) == IF i > Len(xs) THEN 0 - Infinity ELSE Max(xs[i], MaxOf(xs, i + 1))

\* mic.reduce((a, b) => a + b * b, 0)
RECURSIVE SumSquares(_, _)
SumSquares(xs, i) == IF i > Len(xs) THEN 0 ELSE xs[i] * xs[i] + SumSquares(xs, i + 1)

\* micClipped: (micMin <= -0.98 || micMax >= 0.98)
MicClipped_Strict(mn, mx) == mn < 0 - ClipThreshold \/ mx > ClipThreshold

MicClipped(mn, mx) == mn <= 0 - ClipThreshold \/ mx >= ClipThreshold

NoDiag == [micSumSq |-> 0, micLen |-> 0, micClipped |-> FALSE]

\* lines 41-46: the optional high-pass, then the estimate
DiagFilter ==
    /\ dpc = "captured"
    /\ micForCorr' = IF diagIn.filterHpHz # 0 THEN highPassIIR(diagIn.mic)
                     ELSE Unfiltered(diagIn.mic)
    /\ dpc' = "estimated"
    /\ UNCHANGED <<diagIn, micMin, micMax, diag>>
    /\ UNCHANGED notDiag

\* lines 49-54: the statistics of the debug output
DiagStats ==
    /\ dpc = "estimated"
    /\ micMin' = MinOf(diagIn.mic, 1)
    /\ micMax' = MaxOf(diagIn.mic, 1)
    /\ dpc' = "stats"
    /\ UNCHANGED <<diagIn, micForCorr, diag>>
    /\ UNCHANGED notDiag

\* line 64: the result; micRms is kept as the sum of squares and the length
DiagReturn ==
    /\ dpc = "stats"
    /\ diag' = [micSumSq |-> SumSquares(diagIn.mic, 1), micLen |-> Len(diagIn.mic),
                micClipped |-> MicClipped(micMin, micMax)]
    /\ dpc' = "returned"
    /\ UNCHANGED <<diagIn, micForCorr, micMin, micMax>>
    /\ UNCHANGED notDiag

DiagLocals == micForCorr = <<>> /\ micMin = 0 /\ micMax = 0 /\ diag = NoDiag

DiagIdle ==
    /\ diagIn = [mic |-> <<>>, filterHpHz |-> 0]
    /\ dpc = "idle"
    /\ DiagLocals

DiagStart ==
    /\ diagIn \in [mic : CapturedBuffers, filterHpHz : FilterCutoffs]
    /\ dpc = "captured"
    /\ DiagLocals

DiagNext ==
    \/ DiagFilter
    \/ DiagStats
    \/ DiagReturn

(***************************************************************************)
(* The calls of the calibration module, step by step                       *)
(* (src/unnamed/part_000: calibrateLatency 13-65, calibrateLatencyRobust   *)
(* 70-120, playAndRecordCalibration 196-259, ensureCaptureWorklet          *)
(* 262-305).  A call is an async function: it runs until its next await,   *)
(* and calls started side by side interleave at their awaits.  The         *)
(* hardware interactions of a call are logged in the order they are made:  *)
(* getUserMedia, addModule, the 'start' posted to the capture node, the    *)
(* start of the playback.                                                  *)
(***************************************************************************)
MaxCalls        == 2    \* calls started side by side
MaxCallAttempts == 2    \* attempts is drawn from 0..MaxCallAttempts

DefaultFilterHpHz == 150

\* the options a caller sets; filterHpHz NULL when the caller leaves it out
CallOptions ==
    [entry : {"calibrateLatency"}, attempts : {1},
     mode : {"unset", "chirp", "mls"},
     order : {MinOrder - 1, MinOrder, MaxOrder, MaxOrder + 1},
     durationMs : {0 - 5, 0, 5}, filterHpHz : {NULL, 0, 300}]
    \cup
    [entry : {"calibrateLatencyRobust"}, attempts : 0..MaxCallAttempts,
     mode : {"unset", "chirp", "mls"},
     order : {MinOrder - 1, MinOrder, MaxOrder, MaxOrder + 1},
     durationMs : {0 - 5, 0, 5}, filterHpHz : {NULL, 0, 300}]

\* mode = 'chirp' by default
ModeOf(o) == IF o.mode = "unset" THEN "chirp" ELSE o.mode

\* filterHpHz = 150 by default
CutoffOf(o) == IF o.filterHpHz = NULL THEN DefaultFilterHpHz ELSE o.filterHpHz

\* if (order < 2 || order > 20) throw
OrderRejected_UpperOnly(order) == order > MaxOrder

OrderRejected(order) == order < MinOrder \/ order > MaxOrder

\* the options calibrateLatencyRobust hands to calibrateLatency: { mode,
\* sampleRate, chirp, mls, preRollMs, postRollMs, maxLagMs, allowNegative }
PassThrough(o) == [o EXCEPT !.filterHpHz = NULL]

NoCall ==
    [opts |-> [entry |-> "calibrateLatency", attempts |-> 1, mode |-> "unset",
               order |-> MinOrder, durationMs |-> 0, filterHpHz |-> NULL],
     pc |-> "absent", trialOpts |-> [entry |-> "calibrateLatency", attempts |-> 1,
                                     mode |-> "unset", order |-> MinOrder,
                                     durationMs |-> 0, filterHpHz |-> NULL],
     trials |-> 0, refLens |-> <<>>, hw |-> <<>>, cutoffs |-> <<>>]

NewCall(o) == [NoCall EXCEPT !.opts = o, !.trialOpts = o, !.pc = "called"]

IsRobust(c) == calls[c].opts.entry = "calibrateLatencyRobust"

\* the call begins: calibrateLatency goes straight to its trial,
\* calibrateLatencyRobust to its loop
CallEnter(c) ==
    /\ calls[c].pc = "called"
    /\ calls' = [calls EXCEPT ![c].pc = IF IsRobust(c) THEN "loop" ELSE "trial"]
    /\ UNCHANGED <<captureWorkletRegistered, addModuleCalls>>
    /\ UNCHANGED notCalls

\* for (let i = 0; i < attempts; i++) await calibrateLatency(audioCtx, {...})
CallLoopNext(c) ==
    /\ calls[c].pc = "loop"
    /\ calls[c].trials < calls[c].opts.attempts
    /\ calls' = [calls EXCEPT ![c].trialOpts = PassThrough(calls[c].opts),
                              ![c].pc = "trial"]
    /\ UNCHANGED <<captureWorkletRegistered, addModuleCalls>>
    /\ UNCHANGED notCalls

\* the loop is over: calibrateLatencyRobust returns
CallLoopEnd(c) ==
    /\ calls[c].pc = "loop"
    /\ calls[c].trials >= calls[c].opts.attempts
    /\ calls' = [calls EXCEPT ![c].pc = "returned"]
    /\ UNCHANGED <<captureWorkletRegistered, addModuleCalls>>
    /\ UNCHANGED notCalls

\* 1) Build reference buffer: makeMLSSequence throws, the call rejects
CallBuildRefThrows(c) ==
    /\ calls[c].pc = "trial"
    /\ ModeOf(calls[c].trialOpts) = "mls"
    /\ OrderRejected(calls[c].trialOpts.order)
    /\ calls' = [calls EXCEPT ![c].pc = "rejected"]
    /\ UNCHANGED <<captureWorkletRegistered, addModuleCalls>>
    /\ UNCHANGED notCalls

\* 1) Build reference buffer (at 1000 Hz, one repeat of the MLS block), then
\* playAndRecordCalibration is entered
CallBuildRef(c) ==
    /\ calls[c].pc = "trial"
    /\ ~(ModeOf(calls[c].trialOpts) = "mls" /\ OrderRejected(calls[c].trialOpts.order))
    /\ calls' = [calls EXCEPT
                   ![c].refLens = Append(@,
                       IF ModeOf(calls[c].trialOpts) = "mls"
                         THEN Pow2(calls[c].trialOpts.order) - 1
                         ELSE Max(MinChirpLen, RoundMs(calls[c].trialOpts.durationMs, 1000))),
                   ![c].pc = "acquire"]
    /\ UNCHANGED <<captureWorkletRegistered, addModuleCalls>>
    /\ UNCHANGED notCalls

\* await navigator.mediaDevices.getUserMedia(...)
CallAcquire(c) ==
    /\ calls[c].pc = "acquire"
    /\ calls' = [calls EXCEPT ![c].hw = Append(@, "getUserMedia"), ![c].pc = "ensure"]
    /\ UNCHANGED <<captureWorkletRegistered, addModuleCalls>>
    /\ UNCHANGED notCalls

\* ensureCaptureWorklet: if (captureWorkletRegistered) return
CallEnsureRegistered(c) ==
    /\ calls[c].pc = "ensure"
    /\ captureWorkletRegistered
    /\ calls' = [calls EXCEPT ![c].pc = "node"]
    /\ UNCHANGED <<captureWorkletRegistered, addModuleCalls>>
    /\ UNCHANGED notCalls

\* ensureCaptureWorklet: await ctx.audioWorklet.addModule(url)
CallEnsureAddModule(c) ==
    /\ calls[c].pc = "ensure"
    /\ ~captureWorkletRegistered
    /\ addModuleCalls' = addModuleCalls + 1
    /\ calls' = [calls EXCEPT ![c].hw = Append(@, "addModule"), ![c].pc = "adding"]
    /\ UNCHANGED captureWorkletRegistered
    /\ UNCHANGED notCalls

\* addModule resolves: captureWorkletRegistered = true
CallAddModuleResolves(c) ==
    /\ calls[c].pc = "adding"
    /\ captureWorkletRegistered' = TRUE
    /\ calls' = [calls EXCEPT ![c].pc = "node"]
    /\ UNCHANGED addModuleCalls
    /\ UNCHANGED notCalls

\* addModule of a module whose registerProcessor('capture-writer') finds the
\* name taken: the registration throws in the worklet scope, and the promise
\* either resolves (above) or rejects, as the browser decides
CallAddModuleRejects(c) ==
    /\ calls[c].pc = "adding"
    /\ captureWorkletRegistered
    /\ calls' = [calls EXCEPT ![c].pc = "rejected"]
    /\ UNCHANGED <<captureWorkletRegistered, addModuleCalls>>
    /\ UNCHANGED notCalls

\* the node is created and connected; 'start' is posted; await sleep
CallStartCapture(c) ==
    /\ calls[c].pc = "node"
    /\ calls' = [calls EXCEPT ![c].hw = Append(@, "start"), ![c].pc = "sleep"]
    /\ UNCHANGED <<captureWorkletRegistered, addModuleCalls>>
    /\ UNCHANGED notCalls

\* p.start(startTime); await the 'done' message
CallPlayRef(c) ==
    /\ calls[c].pc = "sleep"
    /\ calls' = [calls EXCEPT ![c].hw = Append(@, "play"), ![c].pc = "await"]
    /\ UNCHANGED <<captureWorkletRegistered, addModuleCalls>>
    /\ UNCHANGED notCalls

\* 'done' is received; the high-pass is applied when filterHpHz is not 0; the
\* lag is estimated and the trial returns
CallEstimate(c) ==
    /\ calls[c].pc = "await"
    /\ calls' = [calls EXCEPT ![c].cutoffs = Append(@, CutoffOf(calls[c].trialOpts)),
                              ![c].trials = @ + 1,
                              ![c].pc = IF IsRobust(c) THEN "loop" ELSE "returned"]
    /\ UNCHANGED <<captureWorkletRegistered, addModuleCalls>>
    /\ UNCHANGED notCalls

CallsIdle ==
    /\ calls = [c \in 1..MaxCalls |-> NoCall]
    /\ captureWorkletRegistered = FALSE
    /\ addModuleCalls = 0

\* one call
CallStart ==
    /\ \E o \in CallOptions :
          calls = [c \in 1..MaxCalls |-> IF c = 1 THEN NewCall(o) ELSE NoCall]
    /\ captureWorkletRegistered = FALSE
    /\ addModuleCalls = 0

CallStep(c) ==
    \/ CallEnter(c)
    \/ CallLoopNext(c)
    \/ CallLoopEnd(c)
    \/ CallBuildRefThrows(c)
    \/ CallBuildRef(c)
    \/ CallAcquire(c)
    \/ CallEnsureRegistered(c)
    \/ CallEnsureAddModule(c)
    \/ CallAddModuleResolves(c)
    \/ CallStartCapture(c)
    \/ CallPlayRef(c)
    \/ CallEstimate(c)

CallNext == \E c \in 1..MaxCalls : CallStep(c)

\* calls started side by side, each asking for one trial
ConcurrentOptions ==
    {o \in CallOptions : /\ o.attempts = 1 /\ o.mode # "unset"
                         /\ o.order \in {MinOrder - 1, MinOrder}
                         /\ o.durationMs = 5 /\ o.filterHpHz = NULL}

ConcurrentStart ==
    /\ \E os \in [1..MaxCalls -> ConcurrentOptions] :
          calls = [c \in 1..MaxCalls |-> NewCall(os[c])]
    /\ captureWorkletRegistered = FALSE
    /\ addModuleCalls = 0

ConcurrentNext == \E c \in 1..MaxCalls : CallStep(c) \/ CallAddModuleRejects(c)

(***************************************************************************)
(* The recorder utilities over one recorder node                           *)
(* (src/src/recorder-processor.js: calibrateLatency 198-256 with a         *)
(* setWindow command and 309-347 with a startAt command, scheduleTake      *)
(* 259-275; src/unnamed/part_001: the handlers of the two buttons).        *)
(*                                                                         *)
(* The sample rate is 1000 Hz: one sample lasts one millisecond, that is   *)
(* TicksPerSample ticks.  ctx.currentTime is the start of the next block   *)
(* to be processed.  A message posted to a port is received later, in      *)
(* posting order and before the next block is processed; a timer never     *)
(* fires early but may fire late, also before a chunk already posted has   *)
(* been received.  A chunk is                                              *)
(* kept as the range [from, to) of the indices of its samples.  What the   *)
(* estimator makes of the collected audio is an input: any lag of Lags.    *)
(***************************************************************************)
MaxCalib   == 1     \* calibrateLatency calls in one run
MaxTakes   == 1     \* scheduleTake calls in one run
MaxUtilBlocks == 4  \* blocks processed in one run

WindowMs    == 500
TimerMs     == 600
LookaheadMs == 200
SafetyMs    == 3

UtilBlocks == {200}         \* frames per block: the window ends inside the
                            \* third block, the timer is due at its end
\* the arguments of scheduleTake: latencySeconds in milliseconds, bpm and
\* beatsPerBar
TakeInputs ==
    {[latencyMs |-> 0, tempo |-> [bpm |-> 120, beatsPerBar |-> 4]],
     [latencyMs |-> 5, tempo |-> [bpm |-> 600, beatsPerBar |-> 1]]}
Lags == {0 - 3, 3}          \* estimateLagByCrossCorrelation, in samples

Ms(ms) == ms * TicksPerSample

\* barDur = (60 / bpm) * beatsPerBar, in milliseconds
BarDurMs(tempo) == (60 * 1000 * tempo.beatsPerBar) \div tempo.bpm

\* startAt = clickStart + barDur + latencySeconds + safety
RecordStart_NoSafety(clickStart, tempo, latencyMs) ==
    clickStart + Ms(BarDurMs(tempo)) + Ms(latencyMs)

RecordStart(clickStart, tempo, latencyMs) ==
    clickStart + Ms(BarDurMs(tempo)) + Ms(latencyMs) + Ms(SafetyMs)

\* resolve(Math.max(0, lagSeconds))
Resolved_Signed(lagSamples) == lagSamples

Resolved(lagSamples) == Max(0, lagSamples)

\* calibrateLatency up to the timer: the listener is added, the command is
\* posted, the timer is set
UCalibrate ==
    /\ Len(uCalls) < MaxCalib
    /\ LET start == uNow
           end   == start + Ms(WindowMs)
           cmd   == IF uIn.version = "setWindow"
                      THEN [type |-> "setWindow", start |-> start, end |-> end]
                      ELSE [type |-> "startAt", start |-> uNow, end |-> NULL]
       IN  /\ uCalls' = Append(uCalls,
                               [start |-> start, end |-> end, due |-> uNow + Ms(TimerMs),
                                listening |-> TRUE, mic |-> <<>>, ref |-> <<>>,
                                resolved |-> 0, at |-> 0, lagSamples |-> 0, value |-> 0])
           /\ uCmds' = Append(uCmds, cmd)
    /\ UNCHANGED <<uIn, uNow, uGate, uChunks, uTakes>>
    /\ UNCHANGED notUtils

\* scheduleTake, whole
UTake(latencyMs, tempo) ==
    /\ Len(uTakes) < MaxTakes
    /\ LET clickStart == uNow + Ms(LookaheadMs)
           startTime  == RecordStart(clickStart, tempo, latencyMs)
           cmd        == [type |-> "startAt", start |-> startTime, end |-> NULL]
       IN  /\ uTakes' = Append(uTakes,
                               [now |-> uNow, tempo |-> tempo, latencyMs |-> latencyMs,
                                clickStart |-> clickStart,
                                clickStop |-> clickStart + Ms(BarDurMs(tempo)),
                                recordStart |-> startTime,
                                posted |-> <<cmd>>, received |-> FALSE,
                                receivedAt |-> 0, phase |-> "none"])
           /\ uCmds' = Append(uCmds, cmd)
    /\ UNCHANGED <<uIn, uNow, uGate, uChunks, uCalls>>
    /\ UNCHANGED notUtils

\* RecorderProcessor.port.onmessage receives the oldest command
UReceiveCommand ==
    /\ uCmds # <<>>
    /\ LET cmd == Head(uCmds)
       IN  /\ uGate' = [startAt |-> cmd.start, endAt |-> cmd.end, recording |-> FALSE]
           /\ uTakes' = [k \in 1..Len(uTakes) |->
                           IF ~uTakes[k].received /\ uTakes[k].posted[1] = cmd
                             THEN [uTakes[k] EXCEPT !.received = TRUE,
                                                    !.receivedAt = uNow,
                                                    !.phase = Phase(uGate')]
                             ELSE uTakes[k]]
    /\ uCmds' = Tail(uCmds)
    /\ UNCHANGED <<uIn, uNow, uChunks, uCalls>>
    /\ UNCHANGED notUtils

\* RecorderProcessor.process on the next block
UProcess ==
    /\ uNow < MaxUtilBlocks * uIn.block * TicksPerSample
    /\ uCmds = <<>> /\ uChunks = <<>>
    /\ LET t1   == uNow + uIn.block * TicksPerSample
           base == uNow \div TicksPerSample
           r    == ProcessBlock(uGate, uNow, t1, uIn.block)
       IN  /\ uGate' = r.g
           /\ uChunks' = IF r.emit
                           THEN Append(uChunks, [from |-> base + r.from, to |-> base + r.to,
                                                 hasRef |-> uIn.refConnected])
                           ELSE uChunks
           /\ uNow' = t1
    /\ UNCHANGED <<uIn, uCmds, uCalls, uTakes>>
    /\ UNCHANGED notUtils

\* the main thread receives the oldest chunk: the handler of every call that
\* is still listening runs
UReceiveChunk ==
    /\ uChunks # <<>>
    /\ LET data == Head(uChunks)
       IN  uCalls' = [i \in 1..Len(uCalls) |->
                        IF uCalls[i].listening
                          THEN [uCalls[i] EXCEPT
                                  !.mic = Append(@, [from |-> data.from, to |-> data.to]),
                                  !.ref = IF data.hasRef
                                            THEN Append(@, [from |-> data.from, to |-> data.to])
                                            ELSE @]
                          ELSE uCalls[i]]
    /\ uChunks' = Tail(uChunks)
    /\ UNCHANGED <<uIn, uNow, uGate, uCmds, uTakes>>
    /\ UNCHANGED notUtils

\* the timer of call i fires: the listener is removed and the promise
\* resolved
UTimer(i, lagSamples) ==
    /\ i \in 1..Len(uCalls)
    /\ uCalls[i].listening
    /\ uNow >= uCalls[i].due
    /\ LET empty == uCalls[i].mic = <<>> \/ uCalls[i].ref = <<>>
       IN  uCalls' = [uCalls EXCEPT
                        ![i].listening = FALSE,
                        ![i].resolved = @ + 1,
                        ![i].at = uNow,
                        ![i].lagSamples = IF empty THEN 0 ELSE lagSamples,
                        ![i].value = IF empty THEN 0 ELSE Resolved(lagSamples)]
    /\ UNCHANGED <<uIn, uNow, uGate, uCmds, uChunks, uTakes>>
    /\ UNCHANGED notUtils

UtilLocals ==
    /\ uNow = 0
    /\ uGate = IdleState
    /\ uCmds = <<>> /\ uChunks = <<>> /\ uCalls = <<>> /\ uTakes = <<>>

UtilsIdle ==
    /\ uIn = [block |-> 200, version |-> "setWindow", refConnected |-> FALSE]
    /\ UtilLocals

UtilsStart ==
    /\ uIn \in [block : UtilBlocks, version : {"setWindow", "startAt"},
                refConnected : BOOLEAN]
    /\ UtilLocals

UtilsNext ==
    \/ UCalibrate
    \/ \E a \in TakeInputs : UTake(a.latencyMs, a.tempo)
    \/ UReceiveCommand
    \/ UProcess
    \/ UReceiveChunk
    \/ \E i \in 1..MaxCalib, lagSamples \in Lags : UTimer(i, lagSamples)

(***************************************************************************)
(* SpecGate                                                                *)
(***************************************************************************)
GateStart ==
    /\ blockSize \in 1..MaxBlockSize
    /\ refConnected \in BOOLEAN
    /\ currentTime = 0
    /\ startAt = NULL /\ endAt = NULL /\ recording = FALSE
    /\ port = <<>> /\ collectedMic = <<>> /\ collectedRef = <<>>
    /\ cmds = 0 /\ silent = 0
    /\ last = [op |-> "init", t0 |-> 0, phase |-> "Idle", pre |-> IdleState,
               mic |-> FALSE, chunk |-> <<>>, emitted |-> FALSE]
    /\ win = [op |-> "init", start |-> NULL, end |-> NULL, phase |-> "Idle", inTime |-> FALSE, base |-> 0,
              emitted |-> 0, allMic |-> TRUE, ended |-> FALSE, late |-> 0]

GateNext ==
    \/ \E time \in Times : OnStartAt(time)
    \/ \E start \in Times, end \in Times : OnSetWindow(start, end)
    \/ OnStop
    \/ \E hasMic \in BOOLEAN : Process(hasMic)
    \/ Handler

GateInit == GateStart /\ CaptureIdle /\ RobustIdle /\ EstIdle /\ ProbeIdle /\ TrialsIdle /\ DiagIdle /\ CallsIdle /\ UtilsIdle

SpecGate == GateInit /\ [][GateNext]_vars

(***************************************************************************)
(* SpecCapture                                                             *)
(***************************************************************************)
GateIdle ==
    /\ blockSize = 1 /\ refConnected = FALSE /\ currentTime = 0
    /\ startAt = NULL /\ endAt = NULL /\ recording = FALSE
    /\ port = <<>> /\ collectedMic = <<>> /\ collectedRef = <<>>
    /\ cmds = 0 /\ silent = 0
    /\ last = [op |-> "init", t0 |-> 0, phase |-> "Idle", pre |-> IdleState,
               mic |-> FALSE, chunk |-> <<>>, emitted |-> FALSE]
    /\ win = [op |-> "init", start |-> NULL, end |-> NULL, phase |-> "Idle", inTime |-> FALSE,
              base |-> 0, emitted |-> 0, allMic |-> TRUE, ended |-> FALSE, late |-> 0]

CaptureInit == CaptureIdle /\ GateIdle /\ RobustIdle /\ EstIdle /\ ProbeIdle /\ TrialsIdle /\ DiagIdle /\ CallsIdle /\ UtilsIdle

SpecCapture == CaptureInit /\ [][CaptureNext]_vars

(***************************************************************************)
(* SpecRobust                                                              *)
(***************************************************************************)
RobustInit == RobustStart /\ GateIdle /\ CaptureIdle /\ EstIdle /\ ProbeIdle /\ TrialsIdle /\ DiagIdle /\ CallsIdle /\ UtilsIdle

SpecRobust == RobustInit /\ [][RobustNext]_vars

(***************************************************************************)
(* SpecEstimator                                                           *)
(***************************************************************************)
EstInit == EstStart /\ GateIdle /\ CaptureIdle /\ RobustIdle /\ ProbeIdle /\ TrialsIdle /\ DiagIdle /\ CallsIdle /\ UtilsIdle

SpecEstimator == EstInit /\ [][EstNext]_vars

(***************************************************************************)
(* SpecProbe                                                               *)
(***************************************************************************)
ProbeInit == ProbeStart /\ GateIdle /\ CaptureIdle /\ RobustIdle /\ EstIdle /\ TrialsIdle /\ DiagIdle /\ CallsIdle /\ UtilsIdle

SpecProbe == ProbeInit /\ [][ProbeNext]_vars

(***************************************************************************)
(* SpecTrials, and SpecTrialsLive: the same with the fairness the code's    *)
(* scheduling gives: the audio thread keeps processing blocks and delivers *)
(* the messages posted to a node, and the event loop of the main thread    *)
(* runs every continuation and handler that is ready.                      *)
(***************************************************************************)
TrialsInit ==
    /\ TrialsStart
    /\ GateIdle /\ CaptureIdle /\ RobustIdle /\ EstIdle /\ ProbeIdle /\ DiagIdle /\ CallsIdle /\ UtilsIdle

SpecTrials == TrialsInit /\ [][TrialsNext]_vars

TrialsMainThread ==
    TrialBegin \/ AcquireRejected \/ PostStart \/ PlayProbe \/ OnTrialDone \/ TrialsReturn

SpecTrialsLive ==
    /\ TrialsInit /\ [][TrialsNext]_vars
    /\ WF_vars(TrialsMainThread)
    /\ WF_vars(Tick)
    /\ WF_vars(\E j \in 1..MaxTrials : NodeOnStart(j))

(***************************************************************************)
(* SpecDiag                                                                *)
(***************************************************************************)
DiagInit ==
    /\ DiagStart
    /\ GateIdle /\ CaptureIdle /\ RobustIdle /\ EstIdle /\ ProbeIdle /\ TrialsIdle /\ CallsIdle /\ UtilsIdle

SpecDiag == DiagInit /\ [][DiagNext]_vars

(***************************************************************************)
(* SpecCall: one call of calibrateLatency or calibrateLatencyRobust.       *)
(***************************************************************************)
CallInit ==
    /\ CallStart
    /\ GateIdle /\ CaptureIdle /\ RobustIdle /\ EstIdle /\ ProbeIdle /\ TrialsIdle /\ DiagIdle /\ UtilsIdle

SpecCall == CallInit /\ [][CallNext]_vars

(***************************************************************************)
(* SpecWorklet: MaxCalls calls started side by side on one page, sharing   *)
(* the flag of ensureCaptureWorklet.                                       *)
(***************************************************************************)
WorkletInit ==
    /\ ConcurrentStart
    /\ GateIdle /\ CaptureIdle /\ RobustIdle /\ EstIdle /\ ProbeIdle /\ TrialsIdle /\ DiagIdle /\ UtilsIdle

SpecWorklet == WorkletInit /\ [][ConcurrentNext]_vars

(***************************************************************************)
(* SpecUtils: calibrate and take requests on one recorder node.            *)
(***************************************************************************)
UtilsInit ==
    /\ UtilsStart
    /\ GateIdle /\ CaptureIdle /\ RobustIdle /\ EstIdle /\ ProbeIdle /\ TrialsIdle /\ DiagIdle /\ CallsIdle

SpecUtils == UtilsInit /\ [][UtilsNext]_vars

(***************************************************************************)
(* Properties of the recording gate (checked under SpecGate).              *)
(***************************************************************************)
\* The frames from..to-1 of the block that starts at time t0.
BlockFrames(t0, from, to) ==
    CopyFrames(t0 \div TicksPerSample, from, to, "mic")

\* The chunk messages of the run in posting order: received, then in flight.
PostedMic == collectedMic \o [i \in 1..Len(port) |-> port[i].mic]

\* The last step processed a block with microphone channels while the gate
\* was Armed by startAt (no end time) and the start time lies in the block.
StartsInLastBlock ==
    /\ last.op = "process" /\ last.mic
    /\ ~last.pre.recording
    /\ last.pre.startAt # NULL /\ last.pre.endAt = NULL
    /\ last.t0 <= last.pre.startAt
    /\ last.pre.startAt < last.t0 + BlockTicks

\* C1: armed with start time S and no end time, the block [t0, t1) with
\* t0 <= S < t1 yields the first chunk since the arming; it holds exactly the
\* frames m..B-1 of that block, m = floor((S - t0) * sampleRate).
C1_FirstChunkFromOffset ==
    StartsInLastBlock =>
        LET m == (last.pre.startAt - last.t0) \div TicksPerSample
        IN  /\ last.emitted
            /\ Len(last.chunk) = blockSize - m
            /\ last.chunk = BlockFrames(last.t0, m, blockSize)
            /\ win.emitted = 1
            /\ PostedMic[Len(PostedMic)] = last.chunk

\* C1 witness: the start time fell strictly inside a block, between two
\* samples, m >= 1 samples into it, and the chunk was emitted.
C1_Witness ==
    /\ StartsInLastBlock
    /\ (last.pre.startAt - last.t0) \div TicksPerSample >= 1
    /\ (last.pre.startAt - last.t0) % TicksPerSample # 0
    /\ last.emitted

\* The last step processed a block with microphone channels in which the end
\* time of a window lands n >= 1 samples in, the start lying in an earlier block.
EndsInLastBlock ==
    /\ last.op = "process" /\ last.mic
    /\ last.pre.startAt # NULL /\ last.pre.endAt # NULL
    /\ last.pre.startAt < last.t0
    /\ last.t0 < last.pre.endAt
    /\ last.pre.endAt < last.t0 + BlockTicks
    /\ (last.pre.endAt - last.t0) \div TicksPerSample >= 1

\* C2: the block in which the end time of a window lands n >= 1 samples in
\* (the start being in an earlier block) yields a chunk of exactly the frames
\* 0..n-1, and no chunk is emitted by any later block until the next command.
C2_LastChunkTruncated ==
    /\ EndsInLastBlock =>
        LET n == (last.pre.endAt - last.t0) \div TicksPerSample
        IN  /\ last.emitted
            /\ Len(last.chunk) = n
            /\ last.chunk = BlockFrames(last.t0, 0, n)
            /\ win.ended
    /\ win.late = 0

\* C2 witness: a window ended n >= 1 samples into a block at a time between
\* two samples, and a later block with microphone channels has been processed.
C2_Witness ==
    /\ win.op = "setWindow" /\ win.ended
    /\ win.start < win.end - (win.end % BlockTicks)
    /\ (win.end % BlockTicks) \div TicksPerSample >= 1
    /\ win.end % TicksPerSample # 0
    /\ win.emitted >= 2
    /\ last.op = "process" /\ last.mic /\ last.t0 > win.end

\* The latest command is one window [S, E), S < E on sample boundaries,
\* registered before the block containing S was processed, and every block
\* since carried microphone channels.
OneWindow ==
    /\ win.op = "setWindow"
    /\ win.start < win.end
    /\ win.start % TicksPerSample = 0 /\ win.end % TicksPerSample = 0
    /\ win.inTime /\ win.allMic

\* The chunks of the latest window that the handler has pushed.
WindowChunks(chunks) ==
    IF Len(chunks) <= win.base THEN <<>>
    ELSE SubSeq(chunks, win.base + 1, Len(chunks))

\* The input samples with indices a..b-1, in time order.
Samples(a, b) == [j \in 1..(b - a) |-> MicSample(a + j - 1)]

IsPrefix(s, t) == Len(s) <= Len(t) /\ s = SubSeq(t, 1, Len(s))

\* C3: for one window [S, E) the chunks, concatenated in receipt order, are
\* the input samples S.. in time order without gap or duplicate: what was
\* posted up to now is samples S..min(E, now)-1, what the handler received is a
\* prefix of it, and once the window is over and every message is received,
\* the concatenation is exactly the samples S..E-1.
C3_WindowReconstructed ==
    OneWindow =>
        LET S == win.start \div TicksPerSample
            E == win.end \div TicksPerSample
            now == currentTime \div TicksPerSample
            received == concatFloat32(WindowChunks(collectedMic))
        IN  /\ concatFloat32(WindowChunks(PostedMic)) = Samples(S, Max(S, Min(E, now)))
            /\ IsPrefix(received, Samples(S, E))
            /\ \A i \in 1..Len(PostedMic) : i > win.base => Len(PostedMic[i]) > 0
            /\ (currentTime >= win.end /\ port = <<>>) =>
                  /\ received = Samples(S, E)
                  /\ Len(received) = E - S

\* C3 witness: a window that starts and ends strictly inside two different
\* blocks has been received whole, in two chunks.
C3_Witness ==
    /\ OneWindow
    /\ currentTime > win.end /\ port = <<>>
    /\ win.start % BlockTicks # 0 /\ win.end % BlockTicks # 0
    /\ Len(WindowChunks(collectedMic)) >= 2

(***************************************************************************)
(* Properties of CaptureWriter (checked under SpecCapture).                *)
(***************************************************************************)
\* The first n input samples received after the last 'start', in order.
FirstAfterStart(n) == [j \in 1..n |-> startSample + j - 1]

\* C4: after 'start' with target T the write index never exceeds T, the
\* samples written so far are the first writeIdx input samples received after
\* the start, and the buffer posted with 'done' (and the one the awaiting
\* promise resolves with) has exactly T samples, the first T input samples
\* received after the start, in order.
C4_ExactlyTargetSamples ==
    /\ writeIdx <= target
    /\ cwRecording =>
          /\ Len(buf) = target
          /\ SubSeq(buf, 1, writeIdx) = FirstAfterStart(writeIdx)
    /\ cwLast.done =>
          /\ Len(cwLast.posted) = target
          /\ cwLast.posted = FirstAfterStart(target)
    /\ (micDone /\ cwStarts = 1) =>
          /\ Len(micResult) = target
          /\ micResult = FirstAfterStart(target)

\* C4 witness: a capture that began after some input had gone by was
\* completed by a block larger than what was still needed, earlier blocks
\* having filled part of the buffer.
C4_Witness ==
    /\ cwLast.done
    /\ startSample > 1
    /\ cwLast.need >= 1 /\ cwLast.need < cwLast.len
    /\ target > cwLast.need

(***************************************************************************)
(* Properties of calibrateLatencyRobust (checked under SpecRobust).        *)
(***************************************************************************)
\* The acceptance threshold in force: minScore, 0.2 when not given.
Threshold == IF opts.minScore = NULL THEN 20 ELSE opts.minScore

\* The trials of results whose score reaches the threshold, in order.
AtOrAbove == SelectSeq(results, LAMBDA r : r.score >= Threshold)

\* C5: with at least one valid trial the call returns the element of the
\* valid trials, sorted ascending by lagSamples, at the lower-middle position
\* for an even count (index count/2 - 1, counted from 0) and at the middle
\* position for an odd count.
C5_LowerMiddleMedian ==
    (rpc = "done" /\ valid # <<>>) =>
        LET n == Len(valid)
            pos == IF n % 2 = 0 THEN n \div 2 ELSE (n + 1) \div 2
        IN  returned = SortByLag(valid)[pos]

\* C6: the valid trials are exactly the trials whose score is >= minScore
\* (0.2 by default), in the order they were run, and the median returned is
\* the median of exactly those.
C6_ValidIsThresholdFilter ==
    /\ valid = AtOrAbove
    /\ (rpc = "done" /\ AtOrAbove # <<>>) =>
          /\ returned = pickMedianByLag(AtOrAbove)
          /\ \E i \in 1..Len(results) :
                results[i] = returned /\ results[i].score >= Threshold

\* C6 witness: a finished call in which one trial scored exactly the
\* threshold, another scored below it, and a median was returned.
C6_Witness ==
    /\ rpc = "done"
    /\ \E i \in 1..Len(results) : results[i].score = Threshold
    /\ \E i \in 1..Len(results) : results[i].score < Threshold
    /\ Len(valid) >= 1 /\ Len(valid) < Len(results)

\* C7: when no trial reaches minScore the call still returns: a trial whose
\* score is maximal among all attempts (-Infinity included), and the
\* zero-confidence default when there was no attempt.
C7_FallbackBestOfAll ==
    (rpc = "done" /\ \A i \in 1..Len(results) : results[i].score < Threshold) =>
        IF results = <<>>
          THEN returned.lagSamples = 0 /\ returned.lagMs = 0 /\ returned.score = 0
          ELSE /\ \E i \in 1..Len(results) : returned = results[i]
               /\ \A i \in 1..Len(results) : results[i].score <= returned.score

\* C7 witness: no trial reached the threshold, the first attempt scored
\* -Infinity and a later one scored more, and that better one was returned.
C7_Witness ==
    /\ rpc = "done" /\ valid = <<>>
    /\ Len(results) >= 2
    /\ results[1].score = NegInf
    /\ returned.score > NegInf

\* The amplitude the claim gives the next probe, from amplitude a and the
\* diagnostics of the trial just run.
ClaimedNextAmp(a, res) ==
    IF res.micClipped THEN Max((2 * AmpScale) \div 10, (6 * a) \div 10)
    ELSE IF res.micRms < 30 THEN Min((95 * AmpScale) \div 100, (14 * a) \div 10)
    ELSE a

\* C8: with amplitude adaptation enabled, for either probe kind, the probe of
\* trial i+1 has amplitude max(0.2, 0.6 a) after a clipped trial i, amplitude
\* min(0.95, 1.4 a) after a trial that did not clip and was quieter than 0.03
\* RMS, and the amplitude a of trial i's probe otherwise.
C8_AmplitudeAdaptedEitherKind ==
    AdaptAmpOf(opts) =>
        \A i \in 1..Len(results) :
            i + 1 <= Len(probeAmps) =>
                probeAmps[i + 1] = ClaimedNextAmp(probeAmps[i], results[i])

\* The same statement for the chirp probe alone (it holds).
C8_ChirpAmplitudeAdapted ==
    opts.mode # "mls" => C8_AmplitudeAdaptedEitherKind

(***************************************************************************)
(* Properties of estimateLagNormalized (checked under SpecEstimator).      *)
(***************************************************************************)
ZeroEnergy(s) == \A i \in 1..Len(s) : s[i] = 0

LongEnough == Len(estIn.mic) >= MinLength /\ Len(estIn.ref) >= MinLength

ScoreInUnitRange(s) == ~s.ninf /\ s.dot * s.dot <= s.q

\* C9: when the captured or the reference signal has zero energy after DC
\* removal (a constant or all-zero signal of length >= 8), the estimator
\* returns the zero-confidence result {lagSamples: 0, lagMs: 0, score: 0},
\* and the score it returns is never outside [-1, 1].
C9_ZeroEnergyZeroConfidence ==
    epc = "done" =>
        /\ ScoreInUnitRange(estResult.score)
        /\ (LongEnough /\ (ZeroEnergy(x) \/ ZeroEnergy(y))) => estResult = ZeroConfidence

HalfShorter == Min(Len(estIn.mic), Len(estIn.ref)) \div 2

\* C10: maxLag is min(floor(maxLagMs / 1000 * sampleRate), floor(L / 2)) with
\* L the length of the shorter input, so no lag larger than half the shorter
\* input's length is ever evaluated or returned.
C10_MaxLagHalfShorter ==
    (epc \in {"scan", "done"} /\ LongEnough) =>
        /\ maxLag = Min((estIn.maxLagMs * estIn.sampleRate) \div 1000, HalfShorter)
        /\ \A l \in evaluated : l <= HalfShorter
        /\ epc = "done" => estResult.lagSamples <= HalfShorter


\* the score evalLag gives the lag l in the call under way
ScoreOf(l) == evalLag(x, y, l, MinOverlapOf(estIn.file))

AbsVal(n) == IF n < 0 THEN 0 - n ELSE n

\* C11: the returned lag has the maximum score among the searched lags that
\* were not excluded, and among the lags sharing that maximum it is the one
\* of smallest |lag|, with and without allowNegative.
C11_MaxScoreSmallestAbsLag ==
    (epc = "done" /\ LongEnough) =>
        \A l \in evaluated :
            ~ScoreOf(l).ninf =>
                /\ ~ScoreGreater(ScoreOf(l), estResult.score)
                /\ ~ScoreGreater(estResult.score, ScoreOf(l)) =>
                       AbsVal(estResult.lagSamples) <= AbsVal(l)

\* The same statement for the non-negative search alone (it holds).
C11_NonNegativeSearch ==
    ~estIn.allowNegative => C11_MaxScoreSmallestAbsLag

\* C19: without allowNegative the returned lagSamples lies in 0..maxLag, for
\* every input; with allowNegative it lies in -maxLag..maxLag.
C19_LagWithinSearchRange ==
    epc = "done" =>
        LET m == MaxLagOf(estIn.maxLagMs, estIn.sampleRate, estIn.mic, estIn.ref)
        IN  /\ estResult.lagSamples <= m
            /\ estResult.lagSamples >= (IF estIn.allowNegative THEN 0 - m ELSE 0)

\* C19 witness: a non-negative search returned the last lag it searched, with
\* a finite score.
C19_Witness ==
    /\ epc = "done" /\ LongEnough /\ ~estIn.allowNegative
    /\ maxLag > 0 /\ estResult.lagSamples = maxLag
    /\ ~estResult.score.ninf

\* the captured signal is the reference delayed by k samples and zero-padded
IsDelayedCopy(k) ==
    /\ Len(estIn.mic) >= Len(estIn.ref) + k
    /\ estIn.mic = Delayed(estIn.ref, k, Len(estIn.mic))

\* C20: for every reference signal r that is not constant and every k in
\* 0..maxLag, when the captured signal is r delayed by k samples and
\* zero-padded, the estimator returns lagSamples = k.
C20_InjectedDelayRecovered ==
    (epc = "done" /\ LongEnough /\ ~ZeroEnergy(y)) =>
        \A k \in 0..maxLag : IsDelayedCopy(k) => estResult.lagSamples = k

\* The same statement for the non-negative search and a reference at least as
\* long as the minimum overlap (it holds for the signals drawn).
C20_NonNegativeLongReference ==
    (~estIn.allowNegative /\ Len(estIn.ref) >= MinOverlapOf(estIn.file)) =>
        C20_InjectedDelayRecovered

(***************************************************************************)
(* Properties of the probe generators (checked under SpecProbe).           *)
(***************************************************************************)
BlockLen == Pow2(probeIn.order) - 1

\* C12: for every supported order the register, seeded with 1, returns to the
\* seed for the first time after exactly 2^order - 1 steps.
C12_MaximalLength ==
    ppc = "lfsr" =>
        /\ (0 < mlsIdx /\ mlsIdx < BlockLen) => reg # 1
        /\ mlsIdx = BlockLen => reg = 1

\* The same statement for the orders that have an entry in tapsByOrder (it holds).
C12_ListedOrdersMaximal ==
    probeIn.order >= 10 => C12_MaximalLength

ChirpFadeN == FadeN(probeIn.fadeMs, probeIn.sr)

\* the magnitude rises over the first n samples of b and falls over the last n
EnvelopeTapered(b, n) ==
    \A i \in 1..(n - 1) :
        i + 1 <= Len(b) =>
            /\ AbsVal(b[i]) <= AbsVal(b[i + 1])
            /\ AbsVal(b[Len(b) + 1 - i]) <= AbsVal(b[Len(b) - i])

\* C13: every generated probe, chirp or MLS, has first and last sample 0, and
\* its magnitude rises from 0 over the fade-in samples and falls to 0 over
\* the fade-out samples.
C13_ProbeEdgesTapered ==
    ppc = "done" =>
        /\ yEdges.first = 0 /\ yEdges.last = 0
        /\ probeIn.mode = "chirp" => EnvelopeTapered(chirpY, ChirpFadeN)

\* For the chirp the edges are 0, and the envelope is monotone over the fades
\* when the two fades do not overlap (it holds).
C13_ChirpEdgesTapered ==
    (ppc = "done" /\ probeIn.mode = "chirp") =>
        /\ yEdges.first = 0 /\ yEdges.last = 0
        /\ 2 * ChirpFadeN <= Len(chirpY) => EnvelopeTapered(chirpY, ChirpFadeN)

(***************************************************************************)
(* Properties of the trials in time (SpecTrials, SpecTrialsLive).          *)
(***************************************************************************)
\* C14: a trial whose capture never reaches its target, the input blocks
\* carrying no channel data, still completes: the wait for 'done' ends.
C14_SilentCaptureCompletes ==
    (tpc = "await" /\ ~tIn.micLive) ~> (tpc # "await")

\* With a microphone stream that delivers data the wait ends (it holds).
C14_LiveCaptureCompletes ==
    (tpc = "await" /\ tIn.micLive) ~> (tpc # "await")

EarlierTrialsDone == \A j \in 1..(Len(tNodes) - 1) : tNodes[j].doneReceived

\* C15: the 'start' and the playback of trial i+1 are issued only after the
\* 'done' of trial i was received; at no time are two capture windows open
\* or two probes in flight; and exactly `attempts` trials are run.
C15_TrialsStrictlySequential ==
    /\ EarlierTrialsDone
    /\ Cardinality(Recording(tNodes)) <= 1
    /\ Cardinality(tProbes) <= 1
    /\ tpc = "returned" => Len(tNodes) = tIn.attempts

\* The same statement without the probes in flight (it holds).
C15_CapturesStrictlySequential ==
    /\ EarlierTrialsDone
    /\ Cardinality(Recording(tNodes)) <= 1
    /\ tpc = "returned" => Len(tNodes) = tIn.attempts

(***************************************************************************)
(* Properties of the recording gate after the end of a window and after a  *)
(* stop (checked under SpecGate).                                          *)
(***************************************************************************)
\* The latest command registered a window whose end time lies before the end
\* of the last block processed with microphone channels: the end time has
\* been reached, inside that block, on its boundary, or before.
WindowEndReached ==
    /\ win.op = "setWindow"
    /\ last.op = "process" /\ last.mic
    /\ win.end < last.t0 + BlockTicks

\* C16: once the end time of a window has been reached, inside a block, on a
\* block boundary, or already past when the window is registered, the gate
\* is Idle: recording is false and no start or end time remains registered,
\* until the next command.
C16_IdleAfterWindowEnd ==
    WindowEndReached => GateState = IdleState

\* The same for an end time strictly inside the last block, a block with
\* microphone channels that also reached the start time (it holds): the
\* block that truncates clears the fields.
C16_IdleAfterEndInsideBlock ==
    (WindowEndReached /\ last.t0 < win.end /\ win.start < last.t0 + BlockTicks)
        => GateState = IdleState

\* After the end time the gate never stays recording and emits nothing (it
\* holds), even where the window stays registered.
C16_SilentAfterWindowEnd ==
    WindowEndReached => (~recording /\ (last.t0 >= win.end => ~last.emitted))

\* C17: a 'stop' received in any state puts the gate in Idle (recording
\* false, start and end time cleared), and no chunk is emitted for any block
\* processed after it until a new startAt or setWindow command is received.
C17_StopMakesIdle ==
    win.op = "stop" =>
        /\ GateState = IdleState
        /\ win.emitted = 0
        /\ Len(collectedMic) + Len(port) = win.base
        /\ (last.op = "process" => ~last.emitted)

\* C17 witness: the stop was received while the gate was recording, chunks
\* having been posted, and a block with microphone channels has been
\* processed since.
C17_Witness ==
    /\ win.op = "stop" /\ win.phase = "Recording"
    /\ win.base > 0
    /\ last.op = "process" /\ last.mic

(***************************************************************************)
(* Properties of the diagnostics of calibrateLatency (checked under        *)
(* SpecDiag).                                                              *)
(***************************************************************************)
\* |v| >= 0.98 for the fraction v = f.num / f.den
FractionAtThreshold(f) == AbsVal(f.num) >= ClipThreshold * f.den

\* C18: the clipping flag of a trial result is true exactly when some sample
\* of the unfiltered captured buffer has magnitude >= 0.98 of full scale,
\* whatever the high-pass filter made of the buffer handed to the estimator.
C18_ClippedIffPeakAtThreshold ==
    dpc = "returned" =>
        (diag.micClipped <=>
            \E i \in 1..Len(diagIn.mic) : AbsVal(diagIn.mic[i]) >= ClipThreshold)

\* C18 witness: a buffer whose peak is exactly -0.98 was flagged, the filter
\* being on and no sample of the filtered buffer reaching 0.98.
C18_Witness ==
    /\ dpc = "returned" /\ diag.micClipped
    /\ diagIn.filterHpHz # 0
    /\ micMin = 0 - ClipThreshold /\ micMax < ClipThreshold
    /\ \A i \in 1..Len(micForCorr) : ~FractionAtThreshold(micForCorr[i])

(***************************************************************************)
(* Properties of the calls of the calibration module (checked under        *)
(* SpecCall).                                                              *)
(***************************************************************************)
\* The call asks for at least one trial.
TrialRequested(k) == k.opts.entry = "calibrateLatency" \/ k.opts.attempts >= 1

\* Nothing has touched the hardware for the call: no microphone acquisition,
\* no worklet registration, no capture 'start', no playback.
NoHardware(k) == k.hw = <<>> /\ addModuleCalls = 0

C22_BadDurationFailsBeforeHardware ==
    \A c \in 1..MaxCalls :
        LET k == calls[c]
        IN  (/\ k.pc # "absent" /\ TrialRequested(k)
             /\ ModeOf(k.opts) = "chirp"
             /\ k.opts.durationMs <= 0)
            => /\ NoHardware(k)
               /\ k.refLens = <<>>
               /\ k.pc \in {"called", "loop", "trial", "rejected"}

\* A chirp of non-positive duration is never rejected: the trial runs with a
\* probe of MinChirpLen samples (it holds).
C22_BadDurationPlaysShortestChirp ==
    \A c \in 1..MaxCalls :
        LET k == calls[c]
        IN  (k.pc # "absent" /\ ModeOf(k.opts) = "chirp" /\ k.opts.durationMs <= 0)
            => /\ k.pc # "rejected"
               /\ \A i \in 1..Len(k.refLens) : k.refLens[i] = MinChirpLen

\* C23: calibrateLatencyRobust passes the caller's single-trial options
\* unchanged to each trial, the high-pass cutoff in particular: every trial
\* of the call is estimated with the cutoff the caller set (0: unfiltered).
C23_CutoffPassedToEveryTrial ==
    \A c \in 1..MaxCalls :
        LET k == calls[c]
        IN  /\ k.pc = "trial" =>
                  /\ k.trialOpts.mode = k.opts.mode
                  /\ k.trialOpts.order = k.opts.order
                  /\ k.trialOpts.durationMs = k.opts.durationMs
                  /\ k.trialOpts.filterHpHz = k.opts.filterHpHz
            /\ \A i \in 1..Len(k.cutoffs) : k.cutoffs[i] = CutoffOf(k.opts)

\* What holds instead: a direct calibrateLatency call uses the caller's
\* cutoff, every trial of calibrateLatencyRobust the default one.
C23_RobustTrialsUseDefaultCutoff ==
    \A c \in 1..MaxCalls :
        LET k == calls[c]
        IN  \A i \in 1..Len(k.cutoffs) :
                k.cutoffs[i] = IF k.opts.entry = "calibrateLatencyRobust"
                                 THEN DefaultFilterHpHz ELSE CutoffOf(k.opts)

(***************************************************************************)
(* Properties of ensureCaptureWorklet under calls started side by side     *)
(* (checked under SpecWorklet).                                            *)
(***************************************************************************)
\* C27: the 'capture-writer' module is registered at most once per process,
\* for every interleaving of calibrateLatency calls, two calls that both
\* reach the registration check before either registration has completed
\* included.
C27_RegisteredAtMostOnce == addModuleCalls <= 1

\* Calls of which each reaches the check after the registration of an
\* earlier one has completed register once (it holds): a registration is
\* started only while the flag is unset, and the flag is never unset again.
C27_NoRegistrationOnceFlagSet ==
    [][captureWorkletRegistered =>
          (captureWorkletRegistered' /\ addModuleCalls' = addModuleCalls)]_vars

(***************************************************************************)
(* Properties of CaptureWriter over a run of 'start' commands and blocks   *)
(* (checked under SpecCapture).                                            *)
(***************************************************************************)
\* The step posts a message from the processor / handles a 'start' /
\* processes a block that carries input data.
PostsDone == Len(cwPort') > Len(cwPort)
HandlesStart == cwStarts' = cwStarts + 1
ProcessesData == nextSample' > nextSample

\* C28: while a capture is under way every block with data writes
\* min(block length, samples missing) samples and posts 'done' exactly when
\* the write index reaches the target, once, ending the capture; while no
\* capture is under way no block posts or writes anything; and a 'start'
\* allocates a fresh buffer of the target's length, resets the write index
\* to 0 and begins a capture.
C28_DoneExactlyOncePerStart ==
    [][/\ (cwRecording /\ ProcessesData) =>
              /\ writeIdx' = Min(target, writeIdx + (nextSample' - nextSample))
              /\ PostsDone <=> writeIdx' >= target
              /\ PostsDone =>
                    /\ cwPort' = Append(cwPort, [type |-> "done", samples |-> cwLast'.posted])
                    /\ Len(cwLast'.posted) = target
                    /\ ~cwRecording'
              /\ ~PostsDone => cwRecording'
       /\ (~cwRecording /\ ~HandlesStart) =>
              /\ ~PostsDone
              /\ ~cwRecording'
              /\ writeIdx' = writeIdx /\ buf' = buf
       /\ (cwRecording /\ ~ProcessesData /\ ~HandlesStart) =>
              /\ ~PostsDone
              /\ cwRecording' /\ writeIdx' = writeIdx /\ buf' = buf
       /\ HandlesStart =>
              /\ cwRecording' /\ writeIdx' = 0
              /\ buf' = Zeros(target')
              /\ ~PostsDone
      ]_vars

\* C28 witness: two captures have each been completed, the second begun by a
\* 'start' received after the first 'done' was posted; both messages are on
\* their way, and blocks without data and with data have gone by since.
C28_Witness ==
    /\ cwStarts = 2 /\ ~cwRecording
    /\ Len(cwPort) = 2
    /\ target >= 2 /\ Len(cwPort[2].samples) = target
    /\ cwSilent >= 1
    /\ cwLast.op = "skip"

(***************************************************************************)
(* Properties of the recorder utilities (checked under SpecUtils).         *)
(***************************************************************************)
\* C24: scheduleTake posts exactly one startAt command, whose time is the
\* returned recordStart = clickStart + barDur + latencySeconds + 3 ms with
\* clickStart = currentTime + 0.2 s and barDur = (60 / bpm) * beatsPerBar;
\* for latencySeconds >= 0 the record start is later than the end of the
\* click bar and than the current time, and the gate is Armed, not yet
\* Recording, when the command arrives.
C24_TakeArmsGateAtRecordStart ==
    \A n \in 1..Len(uTakes) :
        LET k == uTakes[n]
            barDur == Ms((60 * 1000 * k.tempo.beatsPerBar) \div k.tempo.bpm)
        IN  /\ k.posted = <<[type |-> "startAt", start |-> k.recordStart, end |-> NULL]>>
            /\ k.clickStart = k.now + Ms(200)
            /\ k.recordStart = k.clickStart + barDur + Ms(k.latencyMs) + Ms(3)
            /\ k.clickStop = k.clickStart + barDur
            /\ k.latencyMs >= 0 => (k.recordStart > k.clickStop /\ k.recordStart > k.now)
            /\ k.received =>
                  /\ k.phase = "Armed"
                  /\ k.recordStart > k.receivedAt

\* C24 witness: a take scheduled while a calibration window was being
\* recorded has been received, and blocks have been processed since without
\* reaching its record start.
C24_Witness ==
    /\ Len(uTakes) = 1 /\ uTakes[1].received
    /\ uTakes[1].latencyMs > 0
    /\ Len(uCalls) = 1 /\ uCalls[1].mic # <<>>
    /\ uTakes[1].now > uCalls[1].start
    /\ uNow > uTakes[1].receivedAt /\ uNow < uTakes[1].recordStart
    /\ uGate.startAt = uTakes[1].recordStart

\* C25: the promise of calibrateLatency resolves at most once and not before
\* 600 ms after the call; with 0 when no mic chunk or no reference chunk was
\* collected, otherwise with max(0, lag / sampleRate), never a negative
\* latency; and once it has resolved the listener is removed: chunks that
\* arrive later are not collected.
C25_ResolvesOnceNonNegative ==
    [][\A i \in 1..Len(uCalls') :
          LET k == uCalls'[i]
          IN  /\ k.resolved <= 1
              /\ k.resolved = 1 <=> ~k.listening
              /\ k.resolved = 1 =>
                    /\ k.at >= k.start + Ms(600)
                    /\ k.value >= 0
                    /\ (k.mic = <<>> \/ k.ref = <<>>) => k.value = 0
                    /\ (k.mic # <<>> /\ k.ref # <<>>) =>
                          k.value = (IF k.lagSamples > 0 THEN k.lagSamples ELSE 0)
              /\ (i <= Len(uCalls) /\ uCalls[i].resolved = 1) => k = uCalls[i]
      ]_vars

\* C25 witness: a call that collected mic and reference chunks resolved with
\* 0 for a negative lag, and a chunk posted before the timer fired was
\* received after it and not collected.
C25_Witness ==
    /\ Len(uCalls) = 1
    /\ uCalls[1].resolved = 1 /\ uCalls[1].lagSamples < 0 /\ uCalls[1].value = 0
    /\ uCalls[1].mic # <<>> /\ uCalls[1].ref # <<>>
    /\ uChunks = <<>> /\ uNow = uCalls[1].at
    /\ uCalls[1].mic[Len(uCalls[1].mic)].to * TicksPerSample < uCalls[1].at

\* C26: whatever calibrate and take requests are made on the same recorder
\* node, every sample a calibrateLatency call (with its setWindow command)
\* collects lies inside that call's own window [start, start + 0.5 s).
C26_CollectedWithinOwnWindow ==
    uIn.version = "setWindow" =>
        \A i \in 1..Len(uCalls) :
            LET k == uCalls[i]
                inside(c) == /\ c.from * TicksPerSample >= k.start
                             /\ c.to * TicksPerSample <= k.end
            IN  /\ \A j \in 1..Len(k.mic) : inside(k.mic[j])
                /\ \A j \in 1..Len(k.ref) : inside(k.ref[j])

\* A call that is the only request on the node collects inside its window
\* (it holds).
C26_LoneCallWithinOwnWindow ==
    (Len(uCalls) + Len(uTakes) <= 1) => C26_CollectedWithinOwnWindow

=============================================================================
